---- MODULE Spec2Model ----
(***************************************************************************)
(* A state-machine model of the SRM Academia scraper:                      *)
(*   - the per-request browser session controller                          *)
(*     (python-scraper/scraper_selenium_session.py),                       *)
(*   - the API entry points and the unified aggregator                     *)
(*     (python-scraper/api_wrapper.py, python-scraper/timetable_scraper.py)*)
(*   - the request dispatch of app.py.                                     *)
(*                                                                         *)
(* The portal and the browser are the environment: whatever the code reads *)
(* from the driver (title, URL, page source, the outcome of a wait) is     *)
(* chosen nondeterministically at the point where the code reads it.       *)
(* Reads that follow each other with no sleep or wait in between are one   *)
(* snapshot of the page.  Strings are abstracted to the predicates the     *)
(* code evaluates on them ("Login" in title, "#Page:" in url, the position *)
(* of "signinFrame" in the page source, the length class of the source).   *)
(* Time is counted in hours.                                               *)
(***************************************************************************)
EXTENDS Integers, Sequences, FiniteSets, TLC

\* ------------------------------------------------------------------ bounds
MaxRequests == 2      \* requests served in one behaviour
MaxTicks == 2         \* clock advances in one behaviour
MaxRows == 1          \* records an extractor finds in one page
MaxDataRows == 2      \* data rows of a table given to an extractor
MaxEntries == 2       \* entries of a slot mapping
MaxTables == 3        \* tables of a page given to extract_semester_from_html
MaxCells == 2         \* cells of a table of such a page

\* ------------------------------------------------------- program constants
SESSION_TIMEOUT_HOURS == 720   \* self.session_timeout = 30 * 24 * 60 * 60 s
CACHE_DURATION_HOURS == 6

Users == {"A", "B"}            \* identities (email)
RequestIds == {1, 2}           \* values of str(uuid.uuid4())[:8]
TickSteps == {6, 720}          \* hours by which the clock may advance

Composite == {"get_all_data", "get_static_data", "get_dynamic_data"}
Individual == {"get_calendar_data", "get_timetable_data",
               "get_attendance_data", "get_marks_data"}
Actions == Composite \cup Individual \cup {"validate_credentials"}

\* ------------------------------------------------------------ page sources
\* The position class of the first "signinFrame" in a page source.
FramePos == {"none", "p500", "p1000", "p5000", "late"}
\* len(page_source): 0, 1..2000, 2001..9999, >= 10000; "null" is None.
SizeClass == {"empty", "small", "medium", "large"}

Sources ==
    { s \in [size : SizeClass, frame : FramePos, loginText : BOOLEAN] :
        /\ (s.size = "empty") => (s.frame = "none" /\ ~s.loginText)
        /\ (s.size = "small") => (s.frame # "late") }

NullHtml == [size |-> "null", frame |-> "none", loginText |-> FALSE]

\* "signinFrame" in page_source[:k]
FrameWithin(src, k) ==
    \/ src.frame = "p500" /\ k >= 500
    \/ src.frame = "p1000" /\ k >= 1000
    \/ src.frame = "p5000" /\ k >= 5000

\* "signinFrame" in page_source
FrameAnywhere(src) == src.frame # "none"

\* len(page_source) < 10000
Below10000(src) == src.size \in {"empty", "small", "medium"}

\* len(page_source) > 2000
Above2000(src) == src.size \in {"medium", "large"}

\* A snapshot of the page as a fetch reads it: driver.title, driver.page_source.
Snapshots == [titleLogin : BOOLEAN, src : Sources]

\* The page is the login page: its title contains "Login" or the login frame is in it.
IsLoginPage(snap) == snap.titleLogin \/ FrameAnywhere(snap.src)

\* ----------------------------------------------------------- session files
GlobalFile == <<"global", 0>>
FileNames == {GlobalFile} \cup (Users \X RequestIds)

NoMarker == [exists |-> FALSE, email |-> "none", timestamp |-> 0, status |-> "none"]

\* self.session_file, chosen by the constructor
SessionFileName(use_session, user_email, request_id) ==
    IF use_session /\ user_email # "none"
    THEN <<user_email, request_id>>
    ELSE GlobalFile

\* datetime.now() - session_time > timedelta(seconds=self.session_timeout)
SessionExpired(marker, t) == t - marker.timestamp > SESSION_TIMEOUT_HOURS

\* ------------------------------------------------------------ is_logged_in
\* What is_logged_in() reads: driver.current_url, driver.title, and whether
\* find_element(By.ID, "signinFrame") finds the frame; crash: a read raises.
Titles == {"Login", "WELCOME", "Other"}
Urls == {"internal", "portal", "other"}   \* .../#Page:..., academia.srmist.edu.in/..., else
LoggedInObs == [crash : BOOLEAN, title : Titles, url : Urls, frameFound : BOOLEAN]

is_logged_in(o) ==
    IF o.crash THEN FALSE
    ELSE IF o.title = "WELCOME" THEN TRUE
    ELSE IF o.url = "internal" THEN TRUE
    ELSE IF o.title = "Login" THEN FALSE
    ELSE IF o.url = "portal" THEN ~o.frameFound
    ELSE FALSE

\* ------------------------------------------------------------------- login
\* One run of login() as the environment decides it.
\*   fail    the step whose wait timed out or whose driver call raised, ending the
\*           run ("none": no step did)
\*   iframe  "id": the wait for By.ID "signinFrame" found the frame;
\*           "fallback": that wait timed out and find_element(By.TAG_NAME, "iframe")
\*           found a frame
\*   wait    the post-submission WebDriverWait(10).until(login_iframe_disappeared):
\*           "gone" the frame list was empty, "detached" switch_to.default_content()
\*           raised inside the condition, "timeout" the wait timed out,
\*           "timeout_detached" it timed out and the handler's switch raised too
\*   titleLogin, frame, urlPage   the page at verification (line 470-472):
\*           "Login" in title, "signinFrame" in page_source[:1000], "#Page:" in url
\*   fb      the page after the fallback driver.get(attendance_url) (line 486-490)
Bools3 == [titleLogin : BOOLEAN, frame : BOOLEAN, urlPage : BOOLEAN]
NoObs == [titleLogin |-> FALSE, frame |-> FALSE, urlPage |-> FALSE]
IframeWays == {"id", "fallback"}
WaitWays == {"gone", "detached", "timeout", "timeout_detached"}
FieldSteps == {"email", "next", "password", "submit"}

LoginEv(f, i, w, o, b) ==
    [fail |-> f, iframe |-> i, wait |-> w, titleLogin |-> o.titleLogin,
     frame |-> o.frame, urlPage |-> o.urlPage, fb |-> b]

\* send_keys(None) raises TypeError: without a password no run gets past step 5.
LoginEvents(pwGiven) ==
    { LoginEv(f, "n/a", "n/a", NoObs, NoObs) : f \in {"get", "window"} }
    \cup { LoginEv("iframe", i, "n/a", NoObs, NoObs) : i \in IframeWays }
    \cup { LoginEv(f, i, "n/a", NoObs, NoObs) :
             f \in (IF pwGiven THEN FieldSteps ELSE {"email", "next", "password"}),
             i \in IframeWays }
    \cup (IF ~pwGiven THEN {} ELSE
          { LoginEv("verify", i, w, NoObs, NoObs) : i \in IframeWays, w \in WaitWays }
          \cup { LoginEv("none", i, w, o, NoObs) :
                   i \in IframeWays, w \in WaitWays,
                   o \in {x \in Bools3 : ~x.titleLogin} }
          \cup { LoginEv("fallback", i, w, o, NoObs) :
                   i \in IframeWays, w \in WaitWays,
                   o \in {x \in Bools3 : x.titleLogin} }
          \cup { LoginEv("none", i, w, o, b) :
                   i \in IframeWays, w \in WaitWays,
                   o \in {x \in Bools3 : x.titleLogin}, b \in Bools3 })

\* login() is explored run by run where api_validate_credentials() calls it.  Its
\* other callers branch on its return value only; they meet the runs that differ
\* in what a caller can observe: a crash, a step that cannot complete, and the
\* verifications of a page whose title is not the login title.
CallerLoginEvents(pwGiven) ==
    { ev \in LoginEvents(pwGiven) :
        /\ ev.iframe \in {"id", "n/a"}
        /\ ev.wait \in {"gone", "n/a"}
        /\ ~ev.titleLogin
        /\ ev.fail \in {"none", "get", "password"} }

\* Line 496-505: the fallback verification after driver.get(attendance_url).
FallbackVerified(b) == ~(b.titleLogin \/ b.frame) /\ b.urlPage

\* LoginVerified without the test for "signinFrame" at line 507.
LoginVerifiedNoFrameCheck(ev) ==
    (ev.titleLogin => FallbackVerified(ev.fb))

\* Line 480-519: the verification that decides login()'s return value.
LoginVerified(ev) ==
    /\ (ev.titleLogin => FallbackVerified(ev.fb))
    /\ ~ev.frame

\* login with the exceptions raised during verification taken as passing.
loginOptimistic(ev) == ev.fail \in {"none", "verify", "fallback"} /\ LoginVerified(ev)

\* The value login() returns.
login(ev) == ev.fail = "none" /\ LoginVerified(ev)

\* save_session(email): a no-op unless use_session.
save_session(files, scr, email, t) ==
    IF scr.use_session
    THEN [files EXCEPT ![scr.session_file] =
            [exists |-> TRUE, email |-> email, timestamp |-> t, status |-> "logged_in"]]
    ELSE files

\* What the last login() saw and returned; NoLogin: none since it was cleared.
NoLogin == [called |-> FALSE, result |-> FALSE, saved |-> FALSE, pwGiven |-> FALSE,
            ev |-> LoginEv("n/a", "n/a", "n/a", NoObs, NoObs)]

\* ------------------------------------------------------------------- state
VARIABLES
    serverless,     \* is_serverless_env(): fixed for the life of the process
    now,            \* the clock, in hours
    ticks,          \* clock advances so far
    requests,       \* requests started so far
    sessionFiles,   \* session marker files on disk: FileNames -> marker
    cache,          \* calendar_cache.json
    pc,             \* position of the request in flight ("idle": none)
    req,            \* the request in flight / the last request
    scraper,        \* the SRMAcademiaScraperSelenium object of the request
    auth,           \* session_valid, login_performed of a composite request
    ai,             \* index of the content area a composite request is at
    results,        \* per-area results of the request
    response,       \* the response returned to the caller
    h,              \* what the request has done so far (history)
    lastProbe,      \* what the last is_session_valid() saw and returned
    lastLogin,      \* what the last login() saw and returned
    lastHelper,     \* how the last fetch helper was entered
    lastFetch,      \* what the last page fetch saw and returned
    scrape_lock,    \* app.py scrape_lock: the thread that holds it, 0 if free
    thr,            \* the server's request threads: where each is in scrape()
    call            \* a call of an extraction function: its argument and result

requestVars ==
    <<serverless, now, ticks, requests, sessionFiles, cache, pc, req, scraper,
      auth, ai, results, response, h, lastProbe, lastLogin, lastHelper, lastFetch>>

vars == <<requestVars, scrape_lock, thr, call>>

\* No extraction function is being called.
NoCall == [fn |-> "none"]

\* The threads on which the server runs scrape() for the requests it accepts.
Threads == {1, 2, 3}

\* A thread with no request: served counts the requests it has answered.
NoThread == [at |-> "none", served |-> 0]

NoCache == [exists |-> FALSE, count |-> 0, owner |-> "none", timestamp |-> 0]

NoReq == [action |-> "none", email |-> "none", password |-> FALSE, force |-> FALSE]

NoScraper == [created |-> FALSE, use_session |-> FALSE, session_file |-> GlobalFile,
              profile_dir |-> FALSE]

NoAuth == [session_valid |-> FALSE, login_performed |-> FALSE]

Areas == {"calendar", "attendance", "marks", "timetable"}

\* results.get(area, {"success": False, "error": "Not attempted"})
NotAttempted == [success |-> FALSE, error |-> "Not attempted", count |-> 0,
                 cached |-> FALSE, stale |-> FALSE]

Ok(n, isCached, isStale) ==
    [success |-> TRUE, error |-> "", count |-> n, cached |-> isCached, stale |-> isStale]

Err(msg) ==
    [success |-> FALSE, error |-> msg, count |-> 0, cached |-> FALSE, stale |-> FALSE]

NoResults == [a \in Areas |-> NotAttempted]

\* No result object yet.  rate: success_rate, as <<whole percent, tenths>>.
NoRate == <<0, 0>>

NoResponse == [returned |-> FALSE, success |-> FALSE, error |-> "", successful |-> 0,
               total |-> 0, rate |-> NoRate]

NoHistory ==
    [loginCalls |-> 0,        \* calls of login()
     loginTrue |-> FALSE,     \* some login() returned True
     loginFalse |-> FALSE,    \* some login() returned False
     topLoginTrue |-> FALSE,  \* the aggregator's own login() returned True
     saves |-> 0,             \* calls of save_session()
     probeNavs |-> 0,         \* driver.get() of the liveness probe
     fetchNavs |-> 0,         \* driver.get() of a content-area fetch
     loggedInChecks |-> 0,    \* calls of is_logged_in()
     closeCalls |-> 0,        \* calls of close()
     successful |-> 0,        \* successful_data_types
     helperCalls |-> 0,       \* calls of the fetch helpers
     rmFailed |-> FALSE]      \* cleanup_profile() could not remove the directory

NoProbe == [called |-> FALSE, record |-> FALSE, expired |-> FALSE, navigated |-> FALSE,
            crash |-> FALSE, titleLogin |-> FALSE, frame |-> FALSE, urlPage |-> FALSE,
            valid |-> FALSE]

NoHelper == [area |-> "none", trust |-> FALSE, checked |-> FALSE, loggedIn |-> FALSE,
             login |-> FALSE]

NoFetch == [area |-> "none", crash |-> FALSE, timedOut |-> FALSE, recheckLogin |-> FALSE,
            read |-> FALSE, titleLogin |-> FALSE, loginPage |-> FALSE, markup |-> FALSE,
            extracted |-> FALSE, detectedLogin |-> FALSE]

Init ==
    /\ serverless \in BOOLEAN
    /\ now = 0
    /\ ticks = 0
    /\ requests = 0
    /\ sessionFiles = [f \in FileNames |-> NoMarker]
    /\ cache = NoCache
    /\ pc = "idle"
    /\ req = NoReq
    /\ scraper = NoScraper
    /\ auth = NoAuth
    /\ ai = 0
    /\ results = NoResults
    /\ response = NoResponse
    /\ h = NoHistory
    /\ lastProbe = NoProbe
    /\ lastLogin = NoLogin
    /\ lastHelper = NoHelper
    /\ lastFetch = NoFetch
    /\ scrape_lock = 0
    /\ thr = [t \in Threads |-> NoThread]
    /\ call = NoCall

\* Time passes between requests; it is counted from the first request.
Tick ==
    /\ pc = "idle"
    /\ requests > 0
    /\ ticks < MaxTicks
    /\ \E d \in TickSteps : now' = now + d
    /\ ticks' = ticks + 1
    /\ UNCHANGED <<call, scrape_lock, thr, serverless, requests, sessionFiles, cache, pc, req, scraper, auth, ai,
                   results, response, h, lastProbe, lastLogin, lastHelper, lastFetch>>

\* -------------------------------------------------------- is_session_valid
\* What the liveness probe reads after driver.get(".../#Page:My_Attendance"):
\* "Login" in title, "signinFrame" in page_source[:1000], "#Page:" in current_url;
\* crash: the navigation or a read raises.
ProbeEvents ==
    { [crash |-> TRUE, titleLogin |-> FALSE, frame |-> FALSE, urlPage |-> FALSE] }
    \cup { [crash |-> FALSE, titleLogin |-> o.titleLogin, frame |-> o.frame,
            urlPage |-> o.urlPage] : o \in Bools3 }

\* ProbeValid without the test for "#Page:" in the URL.
ProbeValidNoUrl(o) == ~o.crash /\ ~(o.titleLogin \/ o.frame)

\* Line 178-189: the verdict of the probe.
ProbeValid(o) == ~o.crash /\ ~(o.titleLogin \/ o.frame) /\ o.urlPage

\* Line 150-167: whether is_session_valid() gets as far as the probe.
ProbeNeeded(scr, files, t) ==
    /\ scr.use_session
    /\ files[scr.session_file].exists
    /\ ~SessionExpired(files[scr.session_file], t)

\* is_session_valid(): what it saw and what it returns, given the probe's outcome o.
is_session_valid(scr, files, t, o) ==
    LET m == files[scr.session_file]
        rec == scr.use_session /\ m.exists
        nav == ProbeNeeded(scr, files, t)
    IN  [called |-> TRUE,
         record |-> rec,
         expired |-> rec /\ SessionExpired(m, t),
         navigated |-> nav,
         crash |-> nav /\ o.crash,
         titleLogin |-> nav /\ o.titleLogin,
         frame |-> nav /\ o.frame,
         urlPage |-> nav /\ o.urlPage,
         valid |-> nav /\ ProbeValid(o)]

\* The probe outcomes to consider: one, unread, when the probe is not made.
ProbeChoices(scr, files, t) ==
    IF ProbeNeeded(scr, files, t)
    THEN ProbeEvents
    ELSE { [crash |-> FALSE, titleLogin |-> FALSE, frame |-> FALSE, urlPage |-> FALSE] }

\* ------------------------------------------------------------- constructor
\* SRMAcademiaScraperSelenium(headless=True, use_session=True[, user_email=email])
NewScraper(isServerless, user_email, request_id) ==
    LET use == ~isServerless
    IN  [created |-> TRUE,
         use_session |-> use,
         session_file |-> SessionFileName(use, user_email, request_id),
         profile_dir |-> use]

\* The constructor's user_email argument: the composite endpoints and
\* validate_credentials pass the email, the individual endpoints pass none.
UserEmailArg(action, email) == IF action \in Individual THEN "none" ELSE email

\* ---------------------------------------------------------- calendar cache
\* is_cache_valid without the test of the record's age.
is_cache_validAnyAge(c, t) == c.exists

\* datetime.now() - cache_time > timedelta(hours=CACHE_DURATION_HOURS)
is_cache_valid(c, t) == c.exists /\ ~(t - c.timestamp > CACHE_DURATION_HOURS)

\* get_cached_calendar_data(): the number of cached entries ([] when unreadable)
get_cached_calendar_data(c) == IF c.exists THEN c.count ELSE 0

save_calendar_cache(n, owner, t) ==
    [exists |-> TRUE, count |-> n, owner |-> owner, timestamp |-> t]

\* CacheFor with one record per identity.
CacheForOwnerOnly(c, email) == IF c.owner = email THEN c ELSE NoCache

\* The cache record a request for email reads: CACHE_FILE, whoever wrote it.
CacheFor(c, email) == c

\* CacheHit without the test of force_refresh.
CacheHitIgnoringForce(c, t, force) == is_cache_valid(c, t) /\ get_cached_calendar_data(c) > 0

\* Line 94-105 / 1105-1116: the cache is consulted and has something to serve.
CacheHit(c, t, force) == ~force /\ is_cache_valid(c, t) /\ get_cached_calendar_data(c) > 0

\* --------------------------------------------------------------- responses
\* A result object: {"success": ok, "error": msg, ...}.
Resp(ok, msg, n, tot) ==
    [returned |-> TRUE, success |-> ok, error |-> msg, successful |-> n, total |-> tot,
     rate |-> NoRate]

\* f"{(successful_data_types / total_data_types) * 100:.1f}%": the percentage rounded
\* to one decimal, as <<whole percent, tenths>>.
SuccessRate(n, tot) ==
    LET twentieths == (n * 2000 + tot) \div (2 * tot)
    IN  <<twentieths \div 10, twentieths % 10>>

\* The areas a composite request fetches, in order; "am" is the combined
\* attendance-and-marks fetch.
HelperSeq(action) ==
    CASE action = "get_all_data" -> <<"calendar", "am", "timetable">>
      [] action = "get_static_data" -> <<"calendar", "timetable">>
      [] action = "get_dynamic_data" -> <<"am">>
      [] OTHER -> <<>>

AreaOf(action) ==
    CASE action = "get_calendar_data" -> "calendar"
      [] action = "get_timetable_data" -> "timetable"
      [] action = "get_attendance_data" -> "attendance"
      [] action = "get_marks_data" -> "marks"
      [] OTHER -> "none"

\* handle_action(): the actions that need a password reject a request without one.
NeedsPassword(action) == action \in Individual \cup {"validate_credentials"}

\* ------------------------------------------------------------ page fetches
\* One page fetch as the environment decides it.
\*   crash    a driver call raises (the fetch's except block returns None)
\*   early    the early check after the navigation finds a login marker
\*            ("Login" in title or "signinFrame" in page_source[:500])
\*   wait     the WebDriverWait(15) for a table with rows: "found" or "timeout"
\*   recheck  after a timeout, the re-check finds a login marker (as early)
\*   snap     the page after the settle delay, which the fetch reads for its result
\*            unless it has returned before
EmptySrc == [size |-> "empty", frame |-> "none", loginText |-> FALSE]
NoSnap == [titleLogin |-> FALSE, src |-> EmptySrc]

FetchEv(c, e, w, r, sn) == [crash |-> c, early |-> e, wait |-> w, recheck |-> r, snap |-> sn]

\* get_calendar_data() and get_timetable_page_html(): navigation, early check,
\* readiness wait, re-check, settle delay, final read.
TableFetchEvents ==
    { FetchEv(TRUE, FALSE, "n/a", FALSE, NoSnap),
      FetchEv(FALSE, TRUE, "n/a", FALSE, NoSnap) }
    \cup { FetchEv(FALSE, FALSE, "found", FALSE, sn) : sn \in Snapshots }
    \cup { FetchEv(FALSE, FALSE, "timeout", r, sn) : r \in BOOLEAN, sn \in Snapshots }

\* get_attendance_page_html() and get_marks_page_html(): navigation, final read.
PageFetchEvents ==
    { FetchEv(TRUE, FALSE, "n/a", FALSE, NoSnap) }
    \cup { FetchEv(FALSE, FALSE, "n/a", FALSE, sn) : sn \in Snapshots }

\* The fetch got as far as reading the page it returns or rejects.
ReadsPage(ev) == ~ev.crash /\ ~ev.early /\ ~ev.recheck

\* GivesUpAfterTimeout with the re-check for a login marker left out.
GivesUpAfterTimeoutNever(ev) == FALSE

\* Line 632-636 (calendar), 124-128 (timetable): what a fetch does when the
\* readiness wait timed out: None if the re-check sees a login marker, else go on.
GivesUpAfterTimeout(ev) == ev.wait = "timeout" /\ ev.recheck

\* Line 644-673: the final checks of get_calendar_data().
CalendarFinalRejects(snap) ==
    \/ snap.titleLogin
    \/ FrameWithin(snap.src, 1000)
    \/ snap.src.size = "empty"
    \/ Below10000(snap.src) /\ (snap.src.loginText \/ FrameAnywhere(snap.src))

get_calendar_data(ev) ==
    IF ev.crash \/ ev.early \/ GivesUpAfterTimeout(ev) \/ CalendarFinalRejects(ev.snap)
    THEN NullHtml
    ELSE ev.snap.src

\* timetable_scraper.py line 136-187: the final checks of get_timetable_page_html().
TimetableFinalRejects(snap) ==
    \/ snap.titleLogin
    \/ Below10000(snap.src) /\ (snap.src.loginText \/ FrameAnywhere(snap.src))

get_timetable_page_html(ev) ==
    IF ev.crash \/ ev.early \/ GivesUpAfterTimeout(ev) \/ TimetableFinalRejects(ev.snap)
    THEN NullHtml
    ELSE ev.snap.src

\* api_wrapper.py line 578-603: the checks of get_marks_page_html().
MarksRejects(snap) ==
    \/ snap.titleLogin \/ FrameWithin(snap.src, 1000)
    \/ snap.titleLogin \/ FrameWithin(snap.src, 5000)
    \/ ~Above2000(snap.src)

get_marks_page_html(ev) ==
    IF ev.crash \/ MarksRejects(ev.snap) THEN NullHtml ELSE ev.snap.src

\* api_wrapper.py line 184-209: get_attendance_page_html() returns the page source as read.
get_attendance_page_html(ev) ==
    IF ev.crash THEN NullHtml ELSE ev.snap.src

\* The fetch of a content area, and the events it can meet.
FetchEvents(area) ==
    IF area \in {"calendar", "timetable"} THEN TableFetchEvents ELSE PageFetchEvents

FetchPage(area, ev) ==
    CASE area = "calendar" -> get_calendar_data(ev)
      [] area = "timetable" -> get_timetable_page_html(ev)
      [] area = "attendance" -> get_attendance_page_html(ev)
      [] OTHER -> get_marks_page_html(ev)

\* "if html_content is None" / "if not html_content"
IsNone(html) == html = NullHtml
IsFalsy(html) == html = NullHtml \/ html.size = "empty"

\* The login-page checks a fetch makes on the page it reads for its result:
\* "Login" in the title, "signinFrame" in the head of the source, and for a
\* source under 10000 characters "Login" or "signinFrame" anywhere in it.
SeesLoginMarkers(area, snap) ==
    CASE area = "calendar" ->
           \/ snap.titleLogin \/ FrameWithin(snap.src, 1000)
           \/ Below10000(snap.src) /\ (snap.src.loginText \/ FrameAnywhere(snap.src))
      [] area = "timetable" ->
           \/ snap.titleLogin
           \/ Below10000(snap.src) /\ (snap.src.loginText \/ FrameAnywhere(snap.src))
      [] area = "marks" -> snap.titleLogin \/ FrameWithin(snap.src, 5000)
      [] OTHER -> FALSE

\* The fetch returned None at one of its login-page checks ("Login page detected",
\* "session expired" in its log), not for a crash or an empty or short page.
DetectsLogin(area, ev) ==
    ~ev.crash /\ (ev.early \/ GivesUpAfterTimeout(ev) \/ SeesLoginMarkers(area, ev.snap))

\* What a fetch saw and returned.  markup: it returned a non-empty page source;
\* extracted: the extractor(s) then found records in it.
FetchRecord(area, ev, html, found) ==
    [area |-> area, crash |-> ev.crash, timedOut |-> ev.wait = "timeout",
     recheckLogin |-> ev.recheck, read |-> ReadsPage(ev),
     titleLogin |-> ReadsPage(ev) /\ ev.snap.titleLogin,
     loginPage |-> ReadsPage(ev) /\ IsLoginPage(ev.snap),
     markup |-> ~IsFalsy(html),
     extracted |-> found,
     detectedLogin |-> DetectsLogin(area, ev)]

\* The numbers of records an extractor can find in a page: none in no page.
RowChoices(html) == IF IsFalsy(html) THEN {0} ELSE 0..MaxRows

\* -------------------------------------------------- results of one area
\* Individual endpoints (api_get_*_data): "if not html_content" then the extraction.
IndividualResult(area, html, n) ==
    IF IsFalsy(html)
    THEN Err("Failed to get data")
    ELSE Ok(n, FALSE, FALSE)

\* get_calendar_data_with_scraper(), line 1139-1170.
CalendarHelperResult(html, n) ==
    IF IsNone(html) THEN Err("Failed to get calendar data after login")
    ELSE IF IsFalsy(html) THEN Err("Failed to get calendar data")
    ELSE Ok(n, FALSE, FALSE)

\* "signinFrame" in html_content[:5000] or len(html_content) < 10000
LikelyLoginPage(html) == FrameWithin(html, 5000) \/ Below10000(html)

\* Line 1313-1350: when no marks are extracted from a page that looks like a login
\* page, marks_result is set to the failure, and line 1348 then builds the empty
\* success from empty_marks_json, which is bound only in the other branch: the
\* helper raises UnboundLocalError.
EmptyMarksRaises(html, m) == m = 0 /\ LikelyLoginPage(html)

\* Line 1254-1288: the attendance result.
AttendanceResult(html, n) ==
    IF n > 0 THEN Ok(n, FALSE, FALSE)
    ELSE IF LikelyLoginPage(html) THEN Err("No data extracted - likely on login page")
    ELSE Ok(0, FALSE, FALSE)

\* get_attendance_and_marks_data_with_scraper(), line 1229-1366: both results;
\* titleLogin: "Login" in scraper.driver.title when the helper reads it again;
\* n, m: the attendance and marks records extracted.
CombinedHelperResult(html, titleLogin, n, m) ==
    LET both(r) == [attendance |-> r, marks |-> r]
    IN  IF IsFalsy(html) THEN both(Err("Failed to get data - likely on login page"))
        ELSE IF titleLogin \/ FrameWithin(html, 5000)
        THEN both(Err("Session expired - redirected to login page"))
        ELSE IF EmptyMarksRaises(html, m) THEN both(Err("Exception"))
        ELSE [attendance |-> AttendanceResult(html, n), marks |-> Ok(m, FALSE, FALSE)]

\* get_timetable_data_with_scraper(), line 1401-1481.
TimetableHelperResult(html, titleLogin, n) ==
    IF IsNone(html)
    THEN IF titleLogin THEN Err("Session expired - please re-authenticate")
         ELSE Err("Failed to get timetable data")
    ELSE IF IsFalsy(html) THEN Err("Failed to get timetable data")
    ELSE IF Below10000(html) /\ (html.loginText \/ FrameAnywhere(html))
    THEN Err("Session expired during timetable fetch - please re-authenticate")
    ELSE Ok(n, FALSE, FALSE)

\* CacheAfterExtract without the test of the extracted list.
CacheAfterExtractAlways(c, n, owner, t) == save_calendar_cache(n, owner, t)

\* The cache after a calendar extraction found n entries (line 134-136, 1151-1153).
CacheAfterExtract(c, n, owner, t) ==
    IF n > 0 THEN save_calendar_cache(n, owner, t) ELSE c

\* Finally without the finally clause.
FinallySkipsClose(scr) == "done"

\* "finally: if scraper: scraper.close()": where an entry point goes when its try
\* block is left, by a return or by an exception.
Finally(scr) == IF scr.created THEN "close" ELSE "done"

\* The exception propagates to the caller: there is no result object.
OnExceptionPropagates(msg) == NoResponse

\* "except Exception as e: return {"success": False, "error": f"...: {str(e)}"}":
\* the result object an entry point returns from its except clause.
OnException(msg) == Resp(FALSE, msg, 0, 0)

\* ------------------------------------------------------------------ Start
\* app.py scrape() -> handle_action() -> api_*(): up to and including the
\* construction of the scraper.  provisioned: webdriver.Chrome() did not raise.
Start(allowed) ==
    /\ pc = "idle"
    /\ requests < MaxRequests
    /\ requests' = requests + 1
    /\ \E a \in allowed, e \in Users, pw \in BOOLEAN, fr \in BOOLEAN,
          rid \in RequestIds, provisioned \in BOOLEAN :
        /\ (a \notin {"get_all_data", "get_static_data", "get_calendar_data"}) => ~fr
        \* identities and request ids are interchangeable: the first request is
        \* A's, and its id is 1
        /\ (requests = 0) => (e = "A" /\ rid = 1)
        /\ req' = [action |-> a, email |-> e, password |-> pw, force |-> fr]
        /\ IF NeedsPassword(a) /\ ~pw
           THEN /\ rid = 1 /\ provisioned
                /\ response' = Resp(FALSE, "Email and password required", 0, 0)
                /\ results' = NoResults
                /\ scraper' = NoScraper
                /\ pc' = Finally(scraper')
           ELSE IF a = "get_calendar_data" /\ CacheHit(CacheFor(cache, e), now, fr)
           THEN /\ rid = 1 /\ provisioned
                /\ response' = Resp(TRUE, "", 1, 1)
                /\ results' = [NoResults EXCEPT
                                 !["calendar"] = Ok(get_cached_calendar_data(CacheFor(cache, e)), TRUE, FALSE)]
                /\ scraper' = NoScraper
                /\ pc' = Finally(scraper')
           ELSE IF ~provisioned
           THEN \* the constructor raised: scraper stays None, the except block answers
                /\ rid = 1
                /\ scraper' = [NoScraper EXCEPT !.profile_dir = ~serverless]
                /\ IF a = "get_calendar_data" /\ ~fr /\ get_cached_calendar_data(CacheFor(cache, e)) > 0
                   THEN /\ response' = Resp(TRUE, "", 1, 1)
                        /\ results' = [NoResults EXCEPT
                                 !["calendar"] = Ok(get_cached_calendar_data(CacheFor(cache, e)), TRUE, TRUE)]
                   ELSE /\ response' = OnException("API Error")
                        /\ results' = NoResults
                /\ pc' = Finally(scraper')
           ELSE /\ scraper' = NewScraper(serverless, UserEmailArg(a, e), rid)
                /\ response' = NoResponse
                /\ results' = NoResults
                /\ pc' = IF a = "validate_credentials" THEN "validate" ELSE "session"
    /\ auth' = NoAuth
    /\ ai' = 0
    /\ h' = NoHistory
    /\ lastProbe' = NoProbe
    /\ lastLogin' = NoLogin
    /\ lastHelper' = NoHelper
    /\ lastFetch' = NoFetch
    /\ UNCHANGED <<call, scrape_lock, thr, serverless, now, ticks, sessionFiles, cache>>

\* ------------------------------------------------------------ login steps
\* SaveCalled with save_session() called whatever login() returns.
SaveCalledAlways(scr, ok) == scr.use_session

\* Line 516-517: "if self.use_session: self.save_session(email)", reached only on
\* the path that returns True.
SaveCalled(scr, ok) == ok /\ scr.use_session

\* SessionAfterLogin with the marker written whatever login() returns.
SessionAfterLoginAttempt(files, scr, email, t, ok) == save_session(files, scr, email, t)

\* The session files after a login() that returned ok.
SessionAfterLogin(files, scr, email, t, ok) ==
    IF SaveCalled(scr, ok) THEN save_session(files, scr, email, t) ELSE files

\* One call scraper.login(req.email, req.password) with outcome ev, from the
\* aggregator itself (top) or from elsewhere.
LoginCall(ev, top) ==
    LET ok == login(ev)
    IN  /\ sessionFiles' = SessionAfterLogin(sessionFiles, scraper, req.email, now, ok)
        /\ lastLogin' = [called |-> TRUE, result |-> ok,
                         saved |-> SaveCalled(scraper, ok),
                         pwGiven |-> req.password, ev |-> ev]
        /\ h' = [h EXCEPT !.loginCalls = @ + 1,
                          !.loginTrue = @ \/ ok,
                          !.loginFalse = @ \/ ~ok,
                          !.topLoginTrue = @ \/ (top /\ ok),
                          !.saves = IF SaveCalled(scraper, ok) THEN @ + 1 ELSE @]

\* api_validate_credentials(): login, then the answer.
ValidateLogin ==
    /\ pc = "validate"
    /\ \E ev \in LoginEvents(req.password) :
        /\ LoginCall(ev, FALSE)
        /\ response' = IF login(ev) THEN Resp(TRUE, "", 0, 0)
                       ELSE Resp(FALSE, "Invalid credentials", 0, 0)
    /\ pc' = Finally(scraper)
    /\ UNCHANGED <<call, scrape_lock, thr, serverless, now, ticks, requests, cache, req, scraper, auth, ai,
                   results, lastProbe, lastHelper, lastFetch>>

\* ------------------------------------------------------- session check
\* AfterSessionCheck without the session_expired branch.
AfterSessionCheckLoginAnyway(valid, pwGiven) ==
    IF valid THEN "helper" ELSE "top_login"

\* The step after the session check (api_get_all_data line 1524-1549, and the same
\* in api_get_static_data / api_get_dynamic_data): fetch with the session, log in,
\* or answer session_expired.
AfterSessionCheck(valid, pwGiven) ==
    IF valid THEN "helper"
    ELSE IF pwGiven THEN "top_login"
    ELSE "session_expired"

\* scraper.is_session_valid() and the branch on it.
SessionCheck ==
    /\ pc = "session"
    /\ \E o \in ProbeChoices(scraper, sessionFiles, now) :
        LET r == is_session_valid(scraper, sessionFiles, now, o)
            nxt == AfterSessionCheck(r.valid, req.password)
        IN  /\ lastProbe' = r
            /\ h' = [h EXCEPT !.probeNavs = IF r.navigated THEN @ + 1 ELSE @]
            /\ IF req.action \in Composite
               THEN /\ auth' = [session_valid |-> r.valid, login_performed |-> FALSE]
                    /\ IF nxt = "session_expired"
                       THEN /\ response' = Resp(FALSE, "session_expired", 0, 0)
                            /\ pc' = Finally(scraper)
                            /\ ai' = ai
                       ELSE /\ response' = response
                            /\ pc' = nxt
                            /\ ai' = IF nxt = "helper" THEN 1 ELSE ai
               ELSE /\ auth' = auth
                    /\ response' = response
                    /\ ai' = ai
                    /\ pc' = IF r.valid THEN "fetch1" ELSE "ilogin"
    /\ lastLogin' = NoLogin
    /\ UNCHANGED <<call, scrape_lock, thr, serverless, now, ticks, requests, sessionFiles, cache, req, scraper,
                   results, lastHelper, lastFetch>>

\* The aggregator's own login (line 1528-1540): login_failed, or login_performed = True.
TopLogin ==
    /\ pc = "top_login"
    /\ \E ev \in CallerLoginEvents(req.password) :
        /\ LoginCall(ev, TRUE)
        /\ IF login(ev)
           THEN /\ auth' = [auth EXCEPT !.login_performed = TRUE]
                /\ response' = response
                /\ pc' = "helper"
                /\ ai' = 1
           ELSE /\ auth' = auth
                /\ response' = Resp(FALSE, "login_failed", 0, 0)
                /\ pc' = Finally(scraper)
                /\ ai' = ai
    /\ lastProbe' = NoProbe
    /\ UNCHANGED <<call, scrape_lock, thr, serverless, now, ticks, requests, cache, req, scraper, results,
                   lastHelper, lastFetch>>

\* ------------------------------------------------------- fetch helpers
CurrentHelper == HelperSeq(req.action)[ai]

AreasOfHelper(hl) == IF hl = "am" THEN {"attendance", "marks"} ELSE {hl}

\* CountSuccess with one count for a helper, however many areas it answers for.
CountSuccessPerHelper(res, areas) == IF \E a \in areas : res[a].success THEN 1 ELSE 0

\* "if result.get('success', False): successful_data_types += 1", for each area a
\* helper answers for.
CountSuccess(res, areas) == Cardinality({a \in areas : res[a].success})

\* NextHelper with the remaining helpers skipped once a helper's area has failed.
NextHelperStopsOnFailure ==
    IF /\ ai < Len(HelperSeq(req.action))
       /\ \A a \in AreasOfHelper(CurrentHelper) : results'[a].success
    THEN /\ ai' = ai + 1 /\ pc' = "helper"
    ELSE /\ ai' = ai /\ pc' = "finish"

\* NextHelper with the same helper called again while helpers remain.
NextHelperRepeats ==
    IF ai < Len(HelperSeq(req.action))
    THEN /\ ai' = ai /\ pc' = "helper"
    ELSE /\ ai' = ai /\ pc' = "finish"

\* The aggregator moves on to the next helper, or to the response.
NextHelper ==
    IF ai < Len(HelperSeq(req.action))
    THEN /\ ai' = ai + 1 /\ pc' = "helper"
    ELSE /\ ai' = ai /\ pc' = "finish"

\* TrustFlag with every helper trusted.
TrustAlways(a) == TRUE

\* trust_logged_in=login_performed, as the aggregator passes it to every helper.
TrustFlag(a) == a.login_performed

\* A helper that is trusted fetches at once; one that is not asks is_logged_in().
ChecksLoggedIn(trust) == ~trust

\* AfterLoggedInCheck with the fetch whatever is_logged_in() returned.
AfterLoggedInCheckFetchAnyway(loggedIn) == "helper_fetch"

\* A helper that asked is_logged_in() fetches when it is true and logs in first
\* when it is not (line 1213-1227, and the same in the other helpers).
AfterLoggedInCheck(loggedIn) == IF loggedIn THEN "helper_fetch" ELSE "helper_login"

\* The entry of a helper: the cache (calendar), then trust or is_logged_in().
HelperStart ==
    /\ pc = "helper"
    /\ LET hl == CurrentHelper
           trust == TrustFlag(auth)
       IN  IF hl = "calendar" /\ CacheHit(CacheFor(cache, req.email), now, req.force)
           THEN /\ results' = [results EXCEPT
                      !["calendar"] = Ok(get_cached_calendar_data(CacheFor(cache, req.email)), TRUE, FALSE)]
                /\ lastHelper' = [area |-> hl, trust |-> trust, checked |-> FALSE,
                                  loggedIn |-> FALSE, login |-> FALSE]
                /\ h' = [h EXCEPT !.helperCalls = @ + 1, !.successful = @ + 1]
                /\ NextHelper
           ELSE IF ~ChecksLoggedIn(trust)
           THEN /\ results' = results
                /\ lastHelper' = [area |-> hl, trust |-> trust, checked |-> FALSE,
                                  loggedIn |-> FALSE, login |-> FALSE]
                /\ h' = [h EXCEPT !.helperCalls = @ + 1]
                /\ pc' = "helper_fetch"
                /\ ai' = ai
           ELSE \E o \in LoggedInObs :
                /\ results' = results
                /\ lastHelper' = [area |-> hl, trust |-> trust, checked |-> TRUE,
                                  loggedIn |-> is_logged_in(o), login |-> FALSE]
                /\ h' = [h EXCEPT !.helperCalls = @ + 1, !.loggedInChecks = @ + 1]
                /\ pc' = AfterLoggedInCheck(is_logged_in(o))
                /\ ai' = ai
    /\ lastProbe' = NoProbe
    /\ lastLogin' = NoLogin
    /\ lastFetch' = NoFetch
    /\ UNCHANGED <<call, scrape_lock, thr, serverless, now, ticks, requests, sessionFiles, cache, req, scraper,
                   auth, response>>

\* A helper that found the browser not logged in calls login(email, password).
HelperLogin ==
    /\ pc = "helper_login"
    /\ \E ev \in CallerLoginEvents(req.password) :
        /\ LoginCall(ev, FALSE)
        /\ IF login(ev)
           THEN /\ results' = results
                /\ pc' = "helper_fetch"
                /\ ai' = ai
           ELSE /\ results' = [a \in Areas |->
                                 IF a \in AreasOfHelper(CurrentHelper)
                                 THEN Err("Login failed") ELSE results[a]]
                /\ NextHelper
    /\ lastHelper' = [lastHelper EXCEPT !.login = TRUE]
    /\ lastProbe' = NoProbe
    /\ lastFetch' = NoFetch
    /\ UNCHANGED <<call, scrape_lock, thr, serverless, now, ticks, requests, cache, req, scraper, auth, response>>

\* A helper fetches its page and turns it into its result(s).
HelperFetch ==
    /\ pc = "helper_fetch"
    /\ LET hl == CurrentHelper
           area == IF hl = "am" THEN "marks" ELSE hl
       IN  \E ev \in FetchEvents(area) :
           LET html == FetchPage(area, ev)
           IN  \E n \in RowChoices(html), m \in RowChoices(html), t2 \in BOOLEAN :
                   /\ (hl # "am") => (m = 0)
                   /\ lastFetch' = FetchRecord(area, ev, html, n > 0 \/ m > 0)
                   /\ (hl = "calendar" \/ (hl = "am" /\ IsFalsy(html))
                         \/ (hl = "timetable" /\ ~IsNone(html))) => ~t2
                   /\ results' =
                        CASE hl = "calendar" ->
                               [results EXCEPT !["calendar"] = CalendarHelperResult(html, n)]
                          [] hl = "timetable" ->
                               [results EXCEPT
                                  !["timetable"] = TimetableHelperResult(html, t2, n)]
                          [] OTHER ->
                               [results EXCEPT
                                  !["attendance"] =
                                      CombinedHelperResult(html, t2, n, m).attendance,
                                  !["marks"] =
                                      CombinedHelperResult(html, t2, n, m).marks]
                   /\ cache' = IF hl = "calendar" /\ ~IsFalsy(html)
                               THEN CacheAfterExtract(cache, n, req.email, now)
                               ELSE cache
    /\ h' = [h EXCEPT !.fetchNavs = @ + 1,
                      !.successful = @ + CountSuccess(results', AreasOfHelper(CurrentHelper))]
    /\ NextHelper
    /\ lastProbe' = NoProbe
    /\ lastLogin' = NoLogin
    /\ UNCHANGED <<call, scrape_lock, thr, serverless, now, ticks, requests, sessionFiles, req, scraper, auth,
                   response, lastHelper>>

TotalDataTypes(action) == IF action = "get_all_data" THEN 4 ELSE 2

\* The aggregator's response (line 1633-1677): success if any area succeeded.
Finish ==
    /\ pc = "finish"
    /\ LET n == h.successful
           tot == TotalDataTypes(req.action)
       IN  response' = [Resp(n > 0, IF n > 0 THEN "" ELSE "All data types failed", n, tot)
                          EXCEPT !.rate = SuccessRate(n, tot)]
    /\ pc' = Finally(scraper)
    /\ lastProbe' = NoProbe
    /\ lastLogin' = NoLogin
    /\ lastFetch' = NoFetch
    /\ UNCHANGED <<call, scrape_lock, thr, serverless, now, ticks, requests, sessionFiles, cache, req, scraper,
                   auth, ai, results, h, lastHelper>>

\* --------------------------------------------------- individual endpoints
\* api_get_<area>_data: the fetch with the existing session, for a valid session
\* (first = TRUE, line 114-116), or the fetch after the login (line 125).
IndividualFetch(first) ==
    /\ pc = IF first THEN "fetch1" ELSE "fetch2"
    /\ LET area == AreaOf(req.action)
       IN  \E ev \in FetchEvents(area) :
           LET html == FetchPage(area, ev)
           IN  IF first /\ IsNone(html)
               THEN /\ lastFetch' = FetchRecord(area, ev, html, FALSE)
                    /\ pc' = "ilogin"
                    /\ UNCHANGED <<results, response, cache>>
               ELSE \E n \in RowChoices(html) :
                       LET r == IndividualResult(area, html, n)
                       IN  /\ lastFetch' = FetchRecord(area, ev, html, n > 0)
                           /\ results' = [results EXCEPT ![area] = r]
                           /\ response' = Resp(r.success, r.error,
                                               IF r.success THEN 1 ELSE 0, 1)
                           /\ cache' = IF area = "calendar" /\ ~IsFalsy(html)
                                       THEN CacheAfterExtract(cache, n, req.email, now)
                                       ELSE cache
                           /\ pc' = Finally(scraper)
    /\ h' = [h EXCEPT !.fetchNavs = @ + 1]
    /\ lastProbe' = NoProbe
    /\ lastLogin' = NoLogin
    /\ UNCHANGED <<call, scrape_lock, thr, serverless, now, ticks, requests, sessionFiles, req, scraper, auth, ai,
                   lastHelper>>

\* The login of an individual endpoint (line 119-125): "Login failed", or fetch.
IndividualLogin ==
    /\ pc = "ilogin"
    /\ \E ev \in CallerLoginEvents(req.password) :
        /\ LoginCall(ev, FALSE)
        /\ IF login(ev)
           THEN /\ pc' = "fetch2"
                /\ UNCHANGED <<results, response>>
           ELSE /\ results' = [results EXCEPT ![AreaOf(req.action)] = Err("Login failed")]
                /\ response' = Resp(FALSE, "Login failed", 0, 1)
                /\ pc' = Finally(scraper)
    /\ lastProbe' = NoProbe
    /\ lastFetch' = NoFetch
    /\ UNCHANGED <<call, scrape_lock, thr, serverless, now, ticks, requests, cache, req, scraper, auth, ai,
                   lastHelper>>

\* ------------------------------------------------------------------- close
\* finally: if scraper: scraper.close().  quit: driver.quit() did not raise;
\* when it raises, close() logs the error and cleanup_profile() is not reached.
\* removed: shutil.rmtree(profile_dir, ignore_errors=True) removed the directory.
\* The value is whether the profile directory is still on disk after close().
ProfileAfterClose(scr, quit, removed) == scr.profile_dir /\ ~(quit /\ removed)

Close ==
    /\ pc = "close"
    /\ \E quit \in BOOLEAN, removed \in BOOLEAN :
        /\ scraper' = [scraper EXCEPT
                         !.profile_dir = ProfileAfterClose(scraper, quit, removed)]
        /\ h' = [h EXCEPT !.closeCalls = @ + 1,
                          !.rmFailed = scraper.profile_dir /\ quit /\ ~removed]
    /\ pc' = "done"
    /\ lastLogin' = NoLogin
    /\ lastProbe' = NoProbe
    /\ lastFetch' = NoFetch
    /\ UNCHANGED <<call, scrape_lock, thr, serverless, now, ticks, requests, sessionFiles, cache, req, auth, ai,
                   results, response, lastHelper>>

\* scrape() returns jsonify(result); the next request starts from a clean slate.
Return ==
    /\ pc = "done"
    /\ pc' = "idle"
    /\ req' = NoReq
    /\ scraper' = NoScraper
    /\ auth' = NoAuth
    /\ ai' = 0
    /\ results' = NoResults
    /\ response' = NoResponse
    /\ h' = NoHistory
    /\ lastProbe' = NoProbe
    /\ lastLogin' = NoLogin
    /\ lastHelper' = NoHelper
    /\ lastFetch' = NoFetch
    /\ UNCHANGED <<call, scrape_lock, thr, serverless, now, ticks, requests, sessionFiles, cache>>

\* ------------------------------------------------ texts and conversions
\* A text is a sequence of characters.  DigitChars are the ASCII digits; "²" is
\* a character for which str.isdigit() is true and int() raises ValueError.
DigitChars == <<"0", "1", "2", "3", "4", "5", "6", "7", "8", "9">>

DigitValue(c) == CHOOSE v \in 0..9 : DigitChars[v + 1] = c

IsAsciiDigit(c) == \E v \in 0..9 : DigitChars[v + 1] = c

\* str.isdigit(): not empty, and every character is a digit.
isdigit(s) == Len(s) > 0 /\ \A i \in 1..Len(s) : IsAsciiDigit(s[i]) \/ s[i] = "²"

\* int(s) raises ValueError.
IntRaises(s) == Len(s) = 0 \/ \E i \in 1..Len(s) : ~IsAsciiDigit(s[i])

\* int(s) for a text of ASCII digits.
RECURSIVE int(_)
int(s) == IF Len(s) = 0 THEN 0
          ELSE 10 * int(SubSeq(s, 1, Len(s) - 1)) + DigitValue(s[Len(s)])

\* f"{n:02d}" and f"{n}" for n < 100 and for a year of four digits.
Pad2(n) == IF n < 10 THEN <<"0", DigitChars[n + 1]>>
           ELSE <<DigitChars[(n \div 10) + 1], DigitChars[(n % 10) + 1]>>

Str4(n) == <<DigitChars[(n \div 1000) + 1], DigitChars[((n \div 100) % 10) + 1],
             DigitChars[((n \div 10) % 10) + 1], DigitChars[(n % 10) + 1]>>

\* Sequences over S of length at most n.
SeqsUpTo(S, n) == UNION {[1..k -> S] : k \in 0..n}

\* --------------------------------------- extract_calendar_data_from_html
\* calendar_scraper_fixed.py.  The calendar table as the extractor reads it:
\*   hdr   the month names the regex and the dictionary of line 98-114 find in the
\*         header row (each with the year '25), the header row being the first row
\*   rows  the data rows; a row is the sequence of the month blocks that are
\*         complete in it (column 5k + 3 exists), a block being its day cell
\*         dt (column 5k) and its day order cell do (column 5k + 3)
month_names == <<"Jul", "Aug", "Sep", "Oct", "Nov", "Dec">>

MonthNum(name) ==
    CASE name = "Jul" -> 7 [] name = "Aug" -> 8 [] name = "Sep" -> 9
      [] name = "Oct" -> 10 [] name = "Nov" -> 11 [] OTHER -> 12

HeaderYear == 2025    \* int('20' + '25'), from the header "Jul '25"

DayTexts == { <<"7">>, <<"0", "7">>, <<"3", "1">>, <<"3", "2">>, <<"0">>, <<"x">>, <<"²">> }

HeaderChoices ==
    { {"Jul", "Aug", "Sep", "Oct", "Nov", "Dec"},
      {"Jul", "Aug", "Sep", "Oct", "Nov"},
      {"Jul", "Aug", "Oct", "Nov", "Dec"},
      {"Jul", "Aug"} }

DayOrderTexts == { <<"3">>, <<"0", "3">>, <<"6">>, <<"-">>, <<>>, <<"x">>, <<"²">> }

\* The month blocks of the tables: every day text beside the day order "3", and
\* every day order text beside the day "7".
DayBlocks ==
    {[dt |-> d, do |-> <<"3">>] : d \in DayTexts}
        \cup {[dt |-> <<"7">>, do |-> o] : o \in DayOrderTexts}

CalendarTables ==
    [hdr : HeaderChoices, rows : SeqsUpTo(SeqsUpTo(DayBlocks, 2), MaxDataRows)]

\* Line 145: dt.isdigit() and 1 <= int(dt) <= 31
ValidDay(dt) == isdigit(dt) /\ int(dt) >= 1 /\ int(dt) <= 31

\* Line 148-158: do_formatted.  int(do) is evaluated when do.isdigit() holds.
DayOrderRaises(do) == isdigit(do) /\ IntRaises(do)

do_formatted(do) ==
    IF isdigit(do)
    THEN IF int(do) >= 1 /\ int(do) <= 5 THEN <<"D", "O", " ">> \o do ELSE <<"-">>
    ELSE <<"-">>

\* Line 162: the date of an entry.
EntryDate(day_num, month_num, year) ==
    Pad2(day_num) \o <<"/">> \o Pad2(month_num) \o <<"/">> \o Str4(year)

\* Line 129-173 for row r and month index k (from 1): the entries so far, and
\* whether an exception was raised (KeyError at line 130 for a month that is not
\* in the header, ValueError at line 145 or 149).
RECURSIVE CalendarBlocks(_, _, _, _, _)
CalendarBlocks(hdr, row, r, k, acc) ==
    IF k > Len(month_names) THEN [raised |-> FALSE, entries |-> acc]
    ELSE IF month_names[k] \notin hdr THEN [raised |-> TRUE, entries |-> acc]
    ELSE IF k > Len(row) THEN CalendarBlocks(hdr, row, r, k + 1, acc)
    ELSE IF isdigit(row[k].dt) /\ IntRaises(row[k].dt)
    THEN [raised |-> TRUE, entries |-> acc]
    ELSE IF ValidDay(row[k].dt) /\ DayOrderRaises(row[k].do)
    THEN [raised |-> TRUE, entries |-> acc]
    ELSE IF ValidDay(row[k].dt)
    THEN CalendarBlocks(hdr, row, r, k + 1,
             Append(acc, [date |-> EntryDate(int(row[k].dt), MonthNum(month_names[k]),
                                             HeaderYear),
                          day_number |-> row[k].dt,
                          day_order |-> do_formatted(row[k].do),
                          month_name |-> month_names[k],
                          row |-> r]))
    ELSE CalendarBlocks(hdr, row, r, k + 1, acc)

\* Line 121-173: the data rows in order; line 183-189: an exception ends the
\* extraction, and what was collected before it is returned.
RECURSIVE CalendarRows(_, _, _, _)
CalendarRows(hdr, rows, r, acc) ==
    IF r > Len(rows) THEN acc
    ELSE LET b == CalendarBlocks(hdr, rows[r], r, 1, acc)
         IN  IF b.raised THEN b.entries ELSE CalendarRows(hdr, rows, r + 1, b.entries)

extract_calendar_data_from_html(t) == CalendarRows(t.hdr, t.rows, 1, <<>>)

\* A call of the calendar extractor, and its return.
CallCalendar ==
    /\ call = NoCall
    /\ \E t \in CalendarTables :
         call' = [fn |-> "extract_calendar_data_from_html", arg |-> t,
                  out |-> extract_calendar_data_from_html(t)]
    /\ UNCHANGED <<requestVars, scrape_lock, thr>>

CallReturn ==
    /\ call # NoCall
    /\ call' = NoCall
    /\ UNCHANGED <<requestVars, scrape_lock, thr>>

\* --------------------------------------- calculate_attendance_percentage
\* str(n) for a natural number n.
RECURSIVE NatText(_)
NatText(n) == IF n < 10 THEN <<DigitChars[n + 1]>>
              ELSE NatText(n \div 10) \o <<DigitChars[(n % 10) + 1]>>

\* f"{percentage:.1f}%" for percentage = (attended / conducted) * 100, conducted > 0:
\* the value rounded to tenths, with its sign.
PercentText(attended, conducted) ==
    LET mag == IF attended < 0 THEN 0 - attended ELSE attended
        tenths == (mag * 2000 + conducted) \div (2 * conducted)
        sign == IF attended < 0 /\ tenths > 0 THEN <<"-">> ELSE <<>>
    IN  sign \o NatText(tenths \div 10) \o <<".", DigitChars[(tenths % 10) + 1], "%">>

\* The texts of the hours cells of an attendance row, and the result "N/A".
HourTexts ==
    { <<"1", "0">>, <<"7">>, <<"3">>, <<"0">>, <<>>, <<"x">>, <<"1", ".", "5">>, <<"²">> }

NotAvailable == <<"N", "/", "A">>

\* api_wrapper.py line 339-353.
calculate_attendance_percentage(hours_conducted, hours_absent) ==
    IF \/ isdigit(hours_conducted) /\ IntRaises(hours_conducted)
       \/ isdigit(hours_absent) /\ IntRaises(hours_absent)
    THEN NotAvailable
    ELSE LET conducted == IF isdigit(hours_conducted) THEN int(hours_conducted) ELSE 0
             absent == IF isdigit(hours_absent) THEN int(hours_absent) ELSE 0
         IN  IF conducted = 0 THEN <<"0", "%">>
             ELSE PercentText(conducted - absent, conducted)

\* A call of calculate_attendance_percentage for the two cells of a row.
CallPercentage ==
    /\ call = NoCall
    /\ \E hc \in HourTexts, ha \in HourTexts :
         call' = [fn |-> "calculate_attendance_percentage", arg |-> <<hc, ha>>,
                  out |-> calculate_attendance_percentage(hc, ha)]
    /\ UNCHANGED <<requestVars, scrape_lock, thr>>

\* ------------------------------------------------- the day-order timetable
\* str.startswith(c), c in str and str.endswith(c) for one character c.
startswith(s, c) == Len(s) > 0 /\ s[1] = c

contains(s, c) == \E i \in 1..Len(s) : s[i] = c

endswith(s, c) == Len(s) > 0 /\ s[Len(s)] = c

\* str.split(c): the parts of s between the occurrences of c.
RECURSIVE split(_, _)
split(s, c) ==
    IF ~contains(s, c) THEN <<s>>
    ELSE LET i == CHOOSE k \in 1..Len(s) : s[k] = c /\ \A m \in 1..(k - 1) : s[m] # c
         IN  <<SubSeq(s, 1, i - 1)>> \o split(SubSeq(s, i + 1, Len(s)), c)

\* re.findall(r'\d+', s): whether it is empty, and its first element.
HasDigits(s) == \E i \in 1..Len(s) : IsAsciiDigit(s[i])

FirstDigits(s) ==
    LET i == CHOOSE k \in 1..Len(s) :
                 IsAsciiDigit(s[k]) /\ \A m \in 1..(k - 1) : ~IsAsciiDigit(s[m])
        j == CHOOSE k \in i..Len(s) :
                 /\ \A m \in i..k : IsAsciiDigit(s[m])
                 /\ (k = Len(s) \/ ~IsAsciiDigit(s[k + 1]))
    IN  SubSeq(s, i, j)

\* str.strip() for texts whose only whitespace is the space.
RECURSIVE strip(_)
strip(s) == IF startswith(s, " ") THEN strip(Tail(s))
            ELSE IF endswith(s, " ") THEN strip(SubSeq(s, 1, Len(s) - 1))
            ELSE s

\* '/X' in s, and s.replace('/X', '').
HasAlternate(s) == \E i \in 1..(Len(s) - 1) : s[i] = "/" /\ s[i + 1] = "X"

RECURSIVE RemoveAlternate(_)
RemoveAlternate(s) ==
    IF ~HasAlternate(s) THEN s
    ELSE LET i == CHOOSE k \in 1..(Len(s) - 1) :
                     /\ s[k] = "/" /\ s[k + 1] = "X"
                     /\ \A m \in 1..(k - 1) : ~(s[m] = "/" /\ s[m + 1] = "X")
         IN  SubSeq(s, 1, i - 1) \o RemoveAlternate(SubSeq(s, i + 2, Len(s)))

\* A dictionary is a function on the set of its keys.
EmptyDict == [k \in {} |-> ""]

\* The slot texts and course titles of the rows of the course table.
SlotTexts ==
    { <<"P", "3", "-", "P", "4">>, <<"P", "3", "-", "P", "4", "-">>,
      <<"P", "3", "9", "-", "P", "4", "0", "-">>, <<"P", "4", "-", "P", "5">>,
      <<"P", "4">>, <<"A">>, <<"P", "-", "P", "4">>,
      <<"P", "3", "-", "P", "4", "-", "P", "5">> }

CourseTitles == {"Compiler Design", "Networks Lab"}

SlotEntries == [slot : SlotTexts, course_title : CourseTitles]

BatchNumbers == {"1", "2", "3", "None"}

\* range(start_num, end_num + 1) of the slot numbers of a range.
RangeNumsExclusive(start_num, end_num) == start_num..(end_num - 1)

RangeNums(start_num, end_num) == start_num..end_num

\* The number a range part names raises when the part has no digit.
ExpandRaises(slot) ==
    /\ startswith(slot, "P") /\ contains(slot, "-")
    /\ LET s == IF endswith(slot, "-") THEN SubSeq(slot, 1, Len(slot) - 1) ELSE slot
           parts == split(s, "-")
       IN  /\ contains(s, "-") /\ Len(parts) = 2
           /\ (~HasDigits(parts[1]) \/ ~HasDigits(parts[2]))

\* The keys one entry of the slot mapping sets (timetable_scraper.py 483-509).
ExpandKeys(slot) ==
    IF startswith(slot, "P") /\ contains(slot, "-")
    THEN LET s == IF endswith(slot, "-") THEN SubSeq(slot, 1, Len(slot) - 1) ELSE slot
             parts == split(s, "-")
         IN  IF contains(s, "-") /\ Len(parts) = 2
             THEN { <<"P">> \o NatText(num) :
                      num \in RangeNums(int(FirstDigits(parts[1])), int(FirstDigits(parts[2]))) }
             ELSE {s}
    ELSE {slot}

RECURSIVE ExpandFrom(_, _, _)
ExpandFrom(slot_mapping, i, expanded_mapping) ==
    IF i > Len(slot_mapping) THEN [raised |-> FALSE, dict |-> expanded_mapping]
    ELSE IF ExpandRaises(slot_mapping[i].slot) THEN [raised |-> TRUE]
    ELSE LET keys == ExpandKeys(slot_mapping[i].slot)
             title == slot_mapping[i].course_title
         IN  ExpandFrom(slot_mapping, i + 1,
                        [k \in DOMAIN expanded_mapping \cup keys |->
                            IF k \in keys THEN title ELSE expanded_mapping[k]])

expand_slot_mapping(slot_mapping) == ExpandFrom(slot_mapping, 1, EmptyDict)

batch_1_periods ==
    <<
       <<<<"A">>, <<"A", "/", "X">>, <<"F", "/", "X">>, <<"F">>, <<"G">>,
         <<"P", "6">>, <<"P", "7">>, <<"P", "8">>, <<"P", "9">>, <<"P", "1", "0">>>>,
       <<<<"P", "1", "1">>, <<"P", "1", "2", "/", "X">>, <<"P", "1", "3", "/", "X">>, <<"P", "1", "4">>, <<"P", "1", "5">>,
         <<"B">>, <<"B">>, <<"G">>, <<"G">>, <<"A">>>>,
       <<<<"C">>, <<"C", "/", "X">>, <<"A", "/", "X">>, <<"D">>, <<"B">>,
         <<"P", "2", "6">>, <<"P", "2", "7">>, <<"P", "2", "8">>, <<"P", "2", "9">>, <<"P", "3", "0">>>>,
       <<<<"P", "3", "1">>, <<"P", "3", "2", "/", "X">>, <<"P", "3", "3", "/", "X">>, <<"P", "3", "4">>, <<"P", "3", "5">>,
         <<"D">>, <<"D">>, <<"B">>, <<"E">>, <<"C">>>>,
       <<<<"E">>, <<"E", "/", "X">>, <<"C", "/", "X">>, <<"F">>, <<"D">>,
         <<"P", "4", "6">>, <<"P", "4", "7">>, <<"P", "4", "8">>, <<"P", "4", "9">>, <<"P", "5", "0">>>>
    >>

batch_2_periods ==
    <<
       <<<<"P", "1">>, <<"P", "2", "/", "X">>, <<"P", "3", "/", "X">>, <<"P", "4">>, <<"P", "5">>,
         <<"A">>, <<"A">>, <<"F">>, <<"F">>, <<"G">>>>,
       <<<<"B">>, <<"B", "/", "X">>, <<"G", "/", "X">>, <<"G">>, <<"A">>,
         <<"P", "1", "6">>, <<"P", "1", "7">>, <<"P", "1", "8">>, <<"P", "1", "9">>, <<"P", "2", "0">>>>,
       <<<<"P", "2", "1">>, <<"P", "2", "2", "/", "X">>, <<"P", "2", "3", "/", "X">>, <<"P", "2", "4">>, <<"P", "2", "5">>,
         <<"C">>, <<"C">>, <<"A">>, <<"D">>, <<"B">>>>,
       <<<<"D">>, <<"D", "/", "X">>, <<"B", "/", "X">>, <<"E">>, <<"C">>,
         <<"P", "3", "6">>, <<"P", "3", "7">>, <<"P", "3", "8">>, <<"P", "3", "9">>, <<"P", "4", "0">>>>,
       <<<<"P", "4", "1">>, <<"P", "4", "2", "/", "X">>, <<"P", "4", "3", "/", "X">>, <<"P", "4", "4">>, <<"P", "4", "5">>,
         <<"E">>, <<"E">>, <<"C">>, <<"F">>, <<"D">>>>
    >>

map_slot_to_course(slot_code, slot_dict) ==
    IF Len(slot_code) = 0 \/ Len(strip(slot_code)) = 0 THEN ""
    ELSE LET code == strip(slot_code)
         IN  IF HasAlternate(code)
             THEN LET base_slot == strip(RemoveAlternate(code))
                  IN  IF base_slot \in DOMAIN slot_dict THEN slot_dict[base_slot] ELSE ""
             ELSE IF code \in DOMAIN slot_dict THEN slot_dict[code] ELSE ""

\* The ten time slots of a day order (line 517-528), by their starting times.
time_slots ==
    <<"08:00", "08:50", "09:45", "10:40", "11:35", "12:30", "01:25", "02:20", "03:10", "04:00">>

\* The template chosen with Batch 1 as the default.
selected_periods_default_batch_1(batch_number) ==
    IF batch_number = "2" THEN batch_2_periods ELSE batch_1_periods

\* Line 576-587: the template of the detected batch number.
selected_periods(batch_number) ==
    IF batch_number = "1" THEN batch_1_periods
    ELSE IF batch_number = "2" THEN batch_2_periods
    ELSE batch_2_periods

\* The grid of create_do_timetable_json for a dictionary: day order by period
\* (line 589-666; a period beyond the time slots is left out, line 653).
create_do_timetable_json(slot_mapping, batch_number) ==
    LET periods == selected_periods(batch_number)
    IN  [do_idx \in 1..Len(periods) |->
            [slot_idx \in {i \in 1..Len(periods[do_idx]) : i <= Len(time_slots)} |->
                LET period == periods[do_idx][slot_idx]
                IN  [slot_code |-> period,
                     course_title |-> map_slot_to_course(period, slot_mapping),
                     is_alternate |-> HasAlternate(period)]]]

\* The timetable of a course list: mapping, expansion, grid (718-724).
CallTimetable ==
    /\ call = NoCall
    /\ \E slot_mapping \in SeqsUpTo(SlotEntries, MaxEntries), batch_number \in BatchNumbers :
         LET expanded == expand_slot_mapping(slot_mapping)
         IN  call' = [fn |-> "create_do_timetable_json",
                      arg |-> <<slot_mapping, batch_number>>,
                      out |-> IF expanded.raised THEN expanded
                              ELSE [raised |-> FALSE, dict |-> expanded.dict,
                                    timetable |->
                                        create_do_timetable_json(expanded.dict, batch_number)]]
    /\ UNCHANGED <<requestVars, scrape_lock, thr>>

\* ------------------------------------------------------------ the marks
UpperChars ==
    { "A", "B", "C", "D", "E", "F", "G", "H", "I", "J", "K", "L", "M",
      "N", "O", "P", "Q", "R", "S", "T", "U", "V", "W", "X", "Y", "Z" }

\* re.search(r'(\d{2}[A-Z]{3}\d{3}[A-Z])', text) matches at position i.
CodeAt(text, i) ==
    /\ i + 8 <= Len(text)
    /\ \A k \in {0, 1, 5, 6, 7} : IsAsciiDigit(text[i + k])
    /\ \A k \in {2, 3, 4, 8} : text[i + k] \in UpperChars

\* The cell text itself when the pattern occurs in it.
course_code_text_if_match(text) ==
    IF \E i \in 1..Len(text) : CodeAt(text, i) THEN <<text>> ELSE <<>>

\* course_code_match: no element for None, else group(1) of the leftmost match.
course_code_match(text) ==
    IF \E i \in 1..Len(text) : CodeAt(text, i)
    THEN LET i == CHOOSE k \in 1..Len(text) :
                     CodeAt(text, k) /\ \A m \in 1..(k - 1) : ~CodeAt(text, m)
         IN  <<SubSeq(text, i, i + 8)>>
    ELSE <<>>

\* The texts of the first cell of a row of the attendance and marks tables.
CodeTexts ==
    { <<"1", "8", "C", "S", "C", "2", "0", "5", "J", "R", "e", "g", "u", "l", "a", "r">>,
      <<"2", "1", "M", "A", "B", "1", "0", "1", "T">>,
      <<"X", "1", "8", "C", "S", "C", "2", "0", "5", "J">>,
      <<"1", "8", "c", "s", "c", "2", "0", "5", "j">>,
      <<"C", "o", "u", "r", "s", "e">>,
      <<>> }

\* What the three methods find in the assessments cell of a marks row: the
\* nested table's cells, the assessment patterns on the cell text, and the
\* fallback patterns on the cell text.
AssessmentCells ==
    { [nested |-> n, direct |-> d, fallback |-> f] :
        <<n, d, f>> \in { <<0, 0, 0>>, <<1, 0, 0>>, <<0, 1, 1>>, <<0, 0, 1>>, <<2, 1, 1>> } }

Assessment(name) ==
    [assessment_name |-> name, total_marks |-> "15.00", marks_obtained |-> "13.50",
     percentage |-> "90.00%"]

\* What each step of lines 771-911 finds in an assessments cell:
\*   nested     the names the cells of the nested table give, in order (775-832)
\*   patterns   the names re.findall gives for each of the three assessment
\*              patterns on the cell text (835-869)
\*   fallbacks  for each of the two fallback patterns, the names re.findall
\*              gives, each with whether marks are found after it (872-911)
\* The text of the nested table is part of the cell text, and what a pattern
\* matches the looser patterns after it match too: the second assessment
\* pattern only where the first does (\n is in \s), the first only where the
\* third does, and a name/number found by any step is found by (\w+)/(\d+\.?\d*).
FallbackFinds ==
    { <<>>, <<[name |-> "FT-I", marks |-> TRUE]>>, <<[name |-> "FT-I", marks |-> FALSE]>>,
      <<[name |-> "Quiz", marks |-> TRUE]>> }

AssessmentFindings ==
    { f \in [nested : {<<>>, <<"FT-I">>, <<"FT-I", "FT-II">>},
             patterns : {<<>>, <<"FT-I">>} \X {<<>>, <<"FT-I">>}
                            \X {<<>>, <<"FT-I">>, <<"FT-I", "CT-I">>},
             fallbacks : {<<>>, <<[name |-> "FT-I", marks |-> TRUE]>>,
                          <<[name |-> "FT-I", marks |-> FALSE]>>} \X FallbackFinds] :
        /\ f.patterns[2] # <<>> => f.patterns[1] # <<>>
        /\ f.patterns[1] # <<>> => f.patterns[3] # <<>>
        /\ f.patterns[3] # <<>> => f.fallbacks[2] # <<>>
        /\ f.fallbacks[1] # <<>> => f.fallbacks[2] # <<>>
        /\ f.nested # <<>> => f.fallbacks[2] # <<>> }

\* `if not assessments:` with the test left out.
not_assessments_always(assessments) == TRUE

\* Line 835 and 872: `if not assessments:`.
not_assessments(assessments) == assessments = <<>>

\* Line 846-869: the assessment patterns from pattern k on; the first with
\* matches gives its names and ends the loop.
RECURSIVE PatternsFrom(_, _)
PatternsFrom(patterns, k) ==
    IF k > Len(patterns) THEN <<>>
    ELSE IF patterns[k] # <<>> THEN patterns[k]
    ELSE PatternsFrom(patterns, k + 1)

\* The names of the matches after which marks are found (line 887-892).
RECURSIVE WithMarks(_)
WithMarks(matches) ==
    IF matches = <<>> THEN <<>>
    ELSE (IF Head(matches).marks THEN <<Head(matches).name>> ELSE <<>>)
             \o WithMarks(Tail(matches))

\* Line 882-911: the fallback patterns from pattern k on; the first with
\* matches gives the names that have marks and ends the loop.
RECURSIVE FallbacksFrom(_, _)
FallbacksFrom(fallbacks, k) ==
    IF k > Len(fallbacks) THEN <<>>
    ELSE IF fallbacks[k] # <<>> THEN WithMarks(fallbacks[k])
    ELSE FallbacksFrom(fallbacks, k + 1)

\* Line 771-911: the names of the assessments list of a marks row.
assessments_of(f) ==
    LET method_1 == f.nested
        method_2 == IF not_assessments(method_1)
                    THEN method_1 \o PatternsFrom(f.patterns, 1)
                    ELSE method_1
    IN  IF not_assessments(method_2)
        THEN method_2 \o FallbacksFrom(f.fallbacks, 1)
        ELSE method_2

\* The findings of a cell of AssessmentCells: nested table cells named FT-I
\* and FT-II, an assessment pattern finding FT-I, a fallback finding Quiz.
FindingsOf(cell) ==
    [nested |-> [k \in 1..cell.nested |-> IF k = 1 THEN "FT-I" ELSE "FT-II"],
     patterns |-> << <<>>, <<>>, IF cell.direct > 0 THEN <<"FT-I">> ELSE <<>> >>,
     fallbacks |-> << <<>>, IF cell.fallback > 0
                            THEN <<[name |-> "Quiz", marks |-> TRUE]>> ELSE <<>> >>]

\* Lines 771-920: the first method that finds assessments gives the list.
Assessments(cell) ==
    LET names == assessments_of(FindingsOf(cell))
    IN  [k \in 1..Len(names) |-> Assessment(names[k])]

\* The assessments of one marks row.
CallAssessments ==
    /\ call = NoCall
    /\ \E f \in AssessmentFindings :
         call' = [fn |-> "assessments", arg |-> f, out |-> assessments_of(f)]
    /\ UNCHANGED <<requestVars, scrape_lock, thr>>

AttendanceRows == [code_text : CodeTexts, course_title : {"Compiler Design"}]

MarksRows == [code_text : CodeTexts, subject_type : {"Theory"}, cell : AssessmentCells]

MarksPages == [attendance : SeqsUpTo(AttendanceRows, 1),
               marks : SeqsUpTo(MarksRows, MaxDataRows)]

\* extract_course_titles_from_html: the first title of each course code.
RECURSIVE CourseTitlesFrom(_, _, _)
CourseTitlesFrom(rows, i, course_titles) ==
    IF i > Len(rows) THEN course_titles
    ELSE LET m == course_code_match(rows[i].code_text)
         IN  IF m # <<>> /\ rows[i].course_title # "" /\ m[1] \notin DOMAIN course_titles
             THEN CourseTitlesFrom(rows, i + 1,
                      [k \in DOMAIN course_titles \cup {m[1]} |->
                          IF k = m[1] THEN rows[i].course_title ELSE course_titles[k]])
             ELSE CourseTitlesFrom(rows, i + 1, course_titles)

extract_course_titles_from_html(page) == CourseTitlesFrom(page.attendance, 1, EmptyDict)

\* Lines 922-933: what a row with a course code adds to marks_data.
MarksEntryAlways(course_code, course_title, subject_type, assessments) ==
    <<[course_code |-> course_code, course_title |-> course_title,
       subject_type |-> subject_type, assessments |-> assessments,
       total_assessments |-> Len(assessments)]>>

MarksEntry(course_code, course_title, subject_type, assessments) ==
    IF assessments # <<>>
    THEN <<[course_code |-> course_code, course_title |-> course_title,
            subject_type |-> subject_type, assessments |-> assessments,
            total_assessments |-> Len(assessments)]>>
    ELSE <<>>

RECURSIVE MarksFrom(_, _, _, _)
MarksFrom(rows, i, course_titles, marks_data) ==
    IF i > Len(rows) THEN marks_data
    ELSE LET m == course_code_match(rows[i].code_text)
         IN  IF m = <<>> THEN MarksFrom(rows, i + 1, course_titles, marks_data)
             ELSE LET course_title == IF m[1] \in DOMAIN course_titles
                                      THEN course_titles[m[1]]
                                      ELSE "Unknown Course Title"
                  IN  MarksFrom(rows, i + 1, course_titles,
                          marks_data \o MarksEntry(m[1], course_title, rows[i].subject_type,
                                                   Assessments(rows[i].cell)))

extract_marks_data_from_html(page, course_titles) ==
    MarksFrom(page.marks, 1, course_titles, <<>>)

\* api_get_marks_data from the page it fetched to its result (1024-1073).
MarksResult(page) ==
    LET course_titles == extract_course_titles_from_html(page)
        marks_data == extract_marks_data_from_html(page, course_titles)
    IN  [success |-> TRUE, type |-> "marks", count |-> Len(marks_data),
         all_courses |-> marks_data, course_titles |-> course_titles]

CallMarks ==
    /\ call = NoCall
    /\ \E page \in MarksPages :
         call' = [fn |-> "api_get_marks_data", arg |-> page, out |-> MarksResult(page)]
    /\ UNCHANGED <<requestVars, scrape_lock, thr>>

\* -------------------------------------------- the extractors, call by call
\* The list and the dictionary an extractor starts from (calendar_data = [],
\* attendance_data = [], courses = [], marks_data = [], course_titles = {} at
\* the top of each function body), given what its previous call returned.
KeptList(previous) == previous

NewList(previous) == <<>>

NewDict(previous) == EmptyDict

\* Rows of the attendance table: nine cells, of which the title and the hours.
AttendanceDataRows ==
    [course_title : {"Compiler Design", "Course Title", ""},
     hours_conducted : {<<"1", "0">>, <<"x">>},
     hours_absent : {<<"3">>, <<"x">>}]

\* api_wrapper.py 273-327: one entry per row with a title that is not the header's.
RECURSIVE AttendanceFrom(_, _, _)
AttendanceFrom(rows, i, attendance_data) ==
    IF i > Len(rows) THEN attendance_data
    ELSE IF rows[i].course_title # "" /\ rows[i].course_title # "Course Title"
    THEN AttendanceFrom(rows, i + 1,
             Append(attendance_data,
                    [row_number |-> i,
                     course_title |-> rows[i].course_title,
                     hours_conducted |-> rows[i].hours_conducted,
                     hours_absent |-> rows[i].hours_absent,
                     attendance_percentage |->
                         calculate_attendance_percentage(rows[i].hours_conducted,
                                                         rows[i].hours_absent)]))
    ELSE AttendanceFrom(rows, i + 1, attendance_data)

\* ------------------------------------------- extract_semester_from_html
\* api_wrapper.py 356-436.  A page is the tables soup.find_all('table') finds,
\* each table one row of cells, each cell its text; parses is whether
\* BeautifulSoup(html_content, 'html.parser') returns (it raises for a
\* html_content that is no markup, None for one).
SemesterWord == <<"s", "e", "m", "e", "s", "t", "e", "r">>

SemesterCells ==
    { <<"S", "e", "m", "e", "s", "t", "e", "r", ":">>,
      <<"S", "e", "m", "e", "s", "t", "e", "r">>,
      <<"S", "e", "m", "e", "s", "t", "e", "r", ":", " ", "5">>,
      <<"3">>, <<"9">>, <<"x", "4">> }

SemesterTables == SeqsUpTo(SemesterCells, MaxCells)

SemesterPages ==
    {[parses |-> TRUE, tables |-> t] : t \in SeqsUpTo(SemesterTables, MaxTables)}
        \cup {[parses |-> FALSE, tables |-> <<>>]}

\* str.lower() on the characters of these texts.
lower(s) == [i \in 1..Len(s) |-> IF s[i] = "S" THEN "s" ELSE s[i]]

\* 'semester' occurs in s at position i, and 'semester' in s.
WordAt(s, i) == i + 7 <= Len(s) /\ SubSeq(s, i, i + 7) = SemesterWord

HasSemester(s) == \E i \in 1..Len(s) : WordAt(s, i)

\* \s* from position j: the position after the white space.
RECURSIVE SkipSpaces(_, _)
SkipSpaces(s, j) == IF j <= Len(s) /\ s[j] = " " THEN SkipSpaces(s, j + 1) ELSE j

\* semester\s*:?\s*(\d) matched at position i: the position of the digit, or 0.
SemesterDigitAt(s, i) ==
    IF ~WordAt(s, i) THEN 0
    ELSE LET a == SkipSpaces(s, i + 8)
             b == IF a <= Len(s) /\ s[a] = ":" THEN a + 1 ELSE a
             c == SkipSpaces(s, b)
         IN  IF c <= Len(s) /\ IsAsciiDigit(s[c]) THEN c ELSE 0

\* re.search(r'semester\s*:?\s*(\d)', s): int(group(1)) of the leftmost match
\* when it is 1..8, else 0 (no match, or a digit outside 1..8).
SemesterInText(s) ==
    IF \E i \in 1..Len(s) : SemesterDigitAt(s, i) # 0
    THEN LET i == CHOOSE k \in 1..Len(s) :
                      SemesterDigitAt(s, k) # 0
                          /\ \A m \in 1..(k - 1) : SemesterDigitAt(s, m) = 0
             semester == DigitValue(s[SemesterDigitAt(s, i)])
         IN  IF 1 <= semester /\ semester <= 8 THEN semester ELSE 0
    ELSE 0

\* table.get_text(): the texts of the cells one after the other.
RECURSIVE get_text(_)
get_text(table) == IF table = <<>> THEN <<>> ELSE Head(table) \o get_text(Tail(table))

\* Line 376-397: the cells of the second table from cell j on: the digit of the
\* cell after a cell with 'semester' and ':' when it is 1..8, else 0.
RECURSIVE SemesterBesideLabel(_, _)
SemesterBesideLabel(cells, j) ==
    IF j > Len(cells) THEN 0
    ELSE IF /\ HasSemester(lower(cells[j])) /\ contains(cells[j], ":")
            /\ j + 1 <= Len(cells)
            /\ HasDigits(cells[j + 1])
            /\ DigitValue(FirstDigits(cells[j + 1])[1]) \in 1..8
    THEN DigitValue(FirstDigits(cells[j + 1])[1])
    ELSE SemesterBesideLabel(cells, j + 1)

\* Line 410-418: the tables from table i on, the first whose text gives 1..8.
RECURSIVE SemesterInTables(_, _)
SemesterInTables(tables, i) ==
    IF i > Len(tables) THEN 0
    ELSE IF HasSemester(lower(get_text(tables[i])))
            /\ SemesterInText(lower(get_text(tables[i]))) # 0
    THEN SemesterInText(lower(get_text(tables[i])))
    ELSE SemesterInTables(tables, i + 1)

\* The three searches with the text of the second table tried before its
\* label cells.
extract_semester_text_first(page) ==
    IF ~page.parses THEN 1
    ELSE IF Len(page.tables) >= 2 /\ SemesterInText(lower(get_text(page.tables[2]))) # 0
    THEN SemesterInText(lower(get_text(page.tables[2])))
    ELSE IF Len(page.tables) >= 2 /\ SemesterBesideLabel(page.tables[2], 1) # 0
    THEN SemesterBesideLabel(page.tables[2], 1)
    ELSE IF SemesterInTables(page.tables, 1) # 0
    THEN SemesterInTables(page.tables, 1)
    ELSE 1

\* api_wrapper.py 356-436.
extract_semester_from_html(page) ==
    IF ~page.parses THEN 1
    ELSE IF Len(page.tables) >= 2 /\ SemesterBesideLabel(page.tables[2], 1) # 0
    THEN SemesterBesideLabel(page.tables[2], 1)
    ELSE IF Len(page.tables) >= 2 /\ SemesterInText(lower(get_text(page.tables[2]))) # 0
    THEN SemesterInText(lower(get_text(page.tables[2])))
    ELSE IF SemesterInTables(page.tables, 1) # 0
    THEN SemesterInTables(page.tables, 1)
    ELSE 1

\* A call of extract_semester_from_html.
CallSemester ==
    /\ call = NoCall
    /\ \E page \in SemesterPages :
         call' = [fn |-> "extract_semester_from_html", arg |-> page,
                  out |-> extract_semester_from_html(page)]
    /\ UNCHANGED <<requestVars, scrape_lock, thr>>

\* Rows of the course table with nine cells: the title (third cell) and the
\* slot (ninth cell); the other cells are empty and the title holds no text
\* the slot patterns of the later methods match.
TimetableRows ==
    [course_title : {"Compiler Design", "Lab", ""},
     slot : {<<"A">>, <<"P", "3", "-", "P", "4", "-">>, <<>>}]

\* timetable_scraper.py 374-459 and 363-365; batch_number "None" stands for a
\* course without the key.
RECURSIVE CoursesFrom(_, _, _, _)
CoursesFrom(rows, i, batch_number, courses) ==
    IF i > Len(rows) THEN courses
    ELSE IF /\ rows[i].course_title \notin {"", "Lab"}
            /\ Len(rows[i].slot) > 0
    THEN CoursesFrom(rows, i + 1, batch_number,
             Append(courses, [row_number |-> i, course_title |-> rows[i].course_title,
                              slot |-> rows[i].slot, batch_number |-> batch_number]))
    ELSE CoursesFrom(rows, i + 1, batch_number, courses)

Extractors ==
    { "extract_calendar_data_from_html", "extract_attendance_data_from_html",
      "extract_semester_from_html", "extract_marks_data_from_html",
      "extract_timetable_data_from_html" }

\* The pages an extractor is given.
ExtractorPages(fn) ==
    CASE fn = "extract_calendar_data_from_html" -> CalendarTables
      [] fn = "extract_attendance_data_from_html" -> SeqsUpTo(AttendanceDataRows, MaxDataRows)
      [] fn = "extract_semester_from_html" ->
             {page \in SemesterPages : Len(page.tables) <= 1}
      [] fn = "extract_marks_data_from_html" -> MarksPages
      [] fn = "extract_timetable_data_from_html" ->
             [batch_number : BatchNumbers, rows : SeqsUpTo(TimetableRows, MaxDataRows)]

\* What no earlier call has left behind.
NoPrevious(fn) ==
    CASE fn = "extract_marks_data_from_html" -> [course_titles |-> EmptyDict, marks_data |-> <<>>]
      [] fn = "extract_timetable_data_from_html" -> [courses |-> <<>>, batch_number |-> "None"]
      [] fn = "extract_semester_from_html" -> 1
      [] OTHER -> <<>>

\* The records an extractor returns for a page, previous being what its
\* previous call in this process returned.
ExtractorResult(fn, page, previous) ==
    CASE fn = "extract_calendar_data_from_html" ->
             CalendarRows(page.hdr, page.rows, 1, NewList(previous))
      [] fn = "extract_attendance_data_from_html" ->
             AttendanceFrom(page, 1, NewList(previous))
      [] fn = "extract_semester_from_html" -> extract_semester_from_html(page)
      [] fn = "extract_marks_data_from_html" ->
             LET course_titles == CourseTitlesFrom(page.attendance, 1,
                                                   NewDict(previous.course_titles))
             IN  [course_titles |-> course_titles,
                  marks_data |-> MarksFrom(page.marks, 1, course_titles,
                                           NewList(previous.marks_data))]
      [] fn = "extract_timetable_data_from_html" ->
             [courses |-> CoursesFrom(page.rows, 1, page.batch_number,
                                      NewList(previous.courses)),
              batch_number |-> page.batch_number]

\* The first call of an extractor on a page, and a second call on the same page.
CallExtractor ==
    /\ call = NoCall
    /\ \E fn \in Extractors :
         \E page \in ExtractorPages(fn) :
            call' = [fn |-> fn, arg |-> page, calls |-> 1,
                     first |-> ExtractorResult(fn, page, NoPrevious(fn)),
                     out |-> ExtractorResult(fn, page, NoPrevious(fn))]
    /\ UNCHANGED <<requestVars, scrape_lock, thr>>

CallExtractorAgain ==
    /\ call # NoCall
    /\ call.fn \in Extractors
    /\ "calls" \in DOMAIN call
    /\ call.calls = 1
    /\ call' = [call EXCEPT !.calls = 2,
                            !.out = ExtractorResult(call.fn, call.arg, call.out)]
    /\ UNCHANGED <<requestVars, scrape_lock, thr>>

\* ------------------------------------------------------ the scrape lock
\* app.py scrape() on the threads of the server.  A thread is at
\*   "none"     no request
\*   "try"      line 86-108: in the try block, before the lock
\*   "with"     line 110: blocked in "with scrape_lock:"
\*   "handle"   line 114: holds the lock, in handle_action()
\*   "jsonify"  line 117: holds the lock, at "return jsonify(result)"
\*   "except"   line 119-127: in the except clause, answering 500
\* A request arrives on a thread that has none.
Arrive(t) ==
    /\ thr[t].at = "none"
    /\ thr[t].served < MaxRequests
    /\ thr' = [thr EXCEPT ![t].at = "try"]
    /\ UNCHANGED <<requestVars, scrape_lock, call>>

\* Line 88-108: get_json() and the two checks: a 400 answer, the lock, or an
\* exception.
Parse(t) ==
    /\ thr[t].at = "try"
    /\ \E outcome \in {"rejected", "accepted", "raised"} :
         thr' = [thr EXCEPT ![t] =
                   CASE outcome = "rejected" -> [at |-> "none", served |-> @.served + 1]
                     [] outcome = "accepted" -> [@ EXCEPT !.at = "with"]
                     [] OTHER -> [@ EXCEPT !.at = "except"]]
    /\ UNCHANGED <<requestVars, scrape_lock, call>>

\* scrape_lock.__enter__(): acquire() returns when the lock is free.
Acquire(t) ==
    /\ thr[t].at = "with"
    /\ scrape_lock = 0
    /\ scrape_lock' = t
    /\ thr' = [thr EXCEPT ![t].at = "handle"]
    /\ UNCHANGED <<requestVars, call>>

\* WithExit with the lock released only when the block is left by a return.
WithExitOnReturnOnly(holder, raised) == IF raised THEN holder ELSE 0

\* scrape_lock.__exit__(): the with statement releases the lock when its block is
\* left, by a return or by an exception.
WithExit(holder, raised) == 0

\* Line 114: handle_action() returns its result, or something in the block raises.
Handle(t) ==
    /\ thr[t].at = "handle"
    /\ \E raised \in BOOLEAN :
         IF raised
         THEN /\ scrape_lock' = WithExit(scrape_lock, TRUE)
              /\ thr' = [thr EXCEPT ![t].at = "except"]
         ELSE /\ scrape_lock' = scrape_lock
              /\ thr' = [thr EXCEPT ![t].at = "jsonify"]
    /\ UNCHANGED <<requestVars, call>>

\* Line 117: return jsonify(result) leaves the with block, or jsonify raises.
Jsonify(t) ==
    /\ thr[t].at = "jsonify"
    /\ \E raised \in BOOLEAN :
         /\ scrape_lock' = WithExit(scrape_lock, raised)
         /\ thr' = [thr EXCEPT ![t] =
                      IF raised THEN [@ EXCEPT !.at = "except"]
                      ELSE [at |-> "none", served |-> @.served + 1]]
    /\ UNCHANGED <<requestVars, call>>

\* Line 119-127: the except clause answers 500.
Except(t) ==
    /\ thr[t].at = "except"
    /\ thr' = [thr EXCEPT ![t] = [at |-> "none", served |-> @.served + 1]]
    /\ UNCHANGED <<requestVars, scrape_lock, call>>

\* -------------------------------------------------------------- the system
Next ==
    \/ Tick
    \/ Start(Actions)
    \/ SessionCheck
    \/ TopLogin
    \/ HelperStart
    \/ HelperLogin
    \/ HelperFetch
    \/ Finish
    \/ IndividualFetch(TRUE)
    \/ IndividualLogin
    \/ IndividualFetch(FALSE)
    \/ ValidateLogin
    \/ Close
    \/ Return

Spec == Init /\ [][Next]_vars

\* The service with api_validate_credentials() as its only entry point.
NextLogin ==
    \/ Tick
    \/ Start({"validate_credentials"})
    \/ ValidateLogin
    \/ Close
    \/ Return

SpecLogin == Init /\ [][NextLogin]_vars

\* The service with the credential check and the composite entry points of one
\* and of two content areas.
NextSession ==
    \/ Tick
    \/ Start({"validate_credentials", "get_static_data", "get_dynamic_data"})
    \/ ValidateLogin
    \/ SessionCheck
    \/ TopLogin
    \/ HelperStart
    \/ HelperLogin
    \/ HelperFetch
    \/ Finish
    \/ Close
    \/ Return

SpecSession == Init /\ [][NextSession]_vars

\* The service with the four individual-area entry points.
NextArea ==
    \/ Tick
    \/ Start(Individual)
    \/ SessionCheck
    \/ IndividualFetch(TRUE)
    \/ IndividualLogin
    \/ IndividualFetch(FALSE)
    \/ Close
    \/ Return

SpecArea == Init /\ [][NextArea]_vars

\* The service with the all-data entry point only.
NextAll ==
    \/ Tick
    \/ Start({"get_all_data"})
    \/ SessionCheck
    \/ TopLogin
    \/ HelperStart
    \/ HelperLogin
    \/ HelperFetch
    \/ Finish
    \/ Close
    \/ Return

SpecAll == Init /\ [][NextAll]_vars

\* The service with the two entry points that read the calendar cache on their own:
\* the individual calendar endpoint and the static-data endpoint.
NextCache ==
    \/ Tick
    \/ Start({"get_calendar_data", "get_static_data"})
    \/ SessionCheck
    \/ TopLogin
    \/ HelperStart
    \/ HelperLogin
    \/ HelperFetch
    \/ Finish
    \/ IndividualFetch(TRUE)
    \/ IndividualLogin
    \/ IndividualFetch(FALSE)
    \/ Close
    \/ Return

SpecCache == Init /\ [][NextCache]_vars

\* The threads of the server in scrape(), with handle_action() as one step.  A
\* thread that can take a step takes it: a thread blocked on the lock gets it once
\* the lock stays free.
ThreadStep(t) == Parse(t) \/ Acquire(t) \/ Handle(t) \/ Jsonify(t) \/ Except(t)

NextLock ==
    \/ \E t \in Threads : Arrive(t)
    \/ \E t \in Threads : Parse(t)
    \/ \E t \in Threads : Acquire(t)
    \/ \E t \in Threads : Handle(t)
    \/ \E t \in Threads : Jsonify(t)
    \/ \E t \in Threads : Except(t)

SpecLock == Init /\ [][NextLock]_vars /\ \A t \in Threads : WF_vars(ThreadStep(t))

\* Calls of the calendar extractor.
NextCalendar == CallCalendar \/ CallReturn

SpecCalendar == Init /\ [][NextCalendar]_vars

\* Calls of calculate_attendance_percentage.
NextPercentage == CallPercentage \/ CallReturn

SpecPercentage == Init /\ [][NextPercentage]_vars

\* Timetables built from slot mappings.
NextTimetable == CallTimetable \/ CallReturn

SpecTimetable == Init /\ [][NextTimetable]_vars

\* Marks results built from pages.
NextMarks == CallMarks \/ CallReturn

SpecMarks == Init /\ [][NextMarks]_vars

\* The assessments of marks rows.
NextAssessments == CallAssessments \/ CallReturn

SpecAssessments == Init /\ [][NextAssessments]_vars

\* extract_semester_from_html called on pages of tables.
NextSemester == CallSemester \/ CallReturn

SpecSemester == Init /\ [][NextSemester]_vars

\* Extractors called once or twice on a page.
NextExtract == CallExtractor \/ CallExtractorAgain \/ CallReturn

SpecExtract == Init /\ [][NextExtract]_vars

C4_ValidOnlyIfFreshAndProbed ==
    LET m == sessionFiles[scraper.session_file]
    IN  lastProbe.called =>
          /\ lastProbe.valid =>
                (/\ scraper.use_session /\ m.exists
                 /\ now - m.timestamp <= SESSION_TIMEOUT_HOURS
                 /\ lastProbe.navigated /\ ~lastProbe.crash
                 /\ ~lastProbe.titleLogin /\ ~lastProbe.frame /\ lastProbe.urlPage)
          /\ (~m.exists \/ now - m.timestamp > SESSION_TIMEOUT_HOURS) =>
                (~lastProbe.valid /\ ~lastProbe.navigated /\ h.probeNavs = 0)

\* C4: a record exactly 30 days old was probed and found valid.
C4_Witness ==
    /\ lastProbe.called /\ lastProbe.valid
    /\ now - sessionFiles[scraper.session_file].timestamp = SESSION_TIMEOUT_HOURS

\* C5, as stated: a composite request without credential, for an identity whose
\* marker was saved by a successful login within the TTL, and whose probe (if any)
\* did not find the portal session dead, is not answered session_expired.
C5_AsStated ==
    (/\ pc = "close"
     /\ req.action \in Composite /\ ~req.password
     /\ lastProbe.called
     /\ \E f \in FileNames :
          /\ sessionFiles[f].exists
          /\ sessionFiles[f].email = req.email
          /\ now - sessionFiles[f].timestamp <= SESSION_TIMEOUT_HOURS
     /\ ~(lastProbe.navigated /\ ~lastProbe.valid))
    => response.error # "session_expired"

\* C6: a composite request whose session is found invalid and that carries no
\* credential is answered session_expired, with no login() call and no navigation
\* of a content-area fetch.
C6_SessionExpiredWithoutLoginOrFetch ==
    /\ (/\ req.action \in Composite /\ ~req.password
        /\ lastProbe.called /\ ~lastProbe.valid)
       => (/\ pc = "close"
           /\ response.error = "session_expired" /\ ~response.success
           /\ h.loginCalls = 0 /\ h.fetchNavs = 0)
    /\ response.error = "session_expired" =>
          (/\ req.action \in Composite /\ ~req.password /\ ~auth.session_valid
           /\ h.loginCalls = 0 /\ h.fetchNavs = 0 /\ h.loggedInChecks = 0
           /\ results = NoResults)

\* C6: a composite request was answered session_expired and has closed its browser.
C6_Witness ==
    /\ pc = "done" /\ response.error = "session_expired"
    /\ req.action \in Composite /\ h.closeCalls = 1

\* C7, as stated: no content-area fetch returns markup when the page it read has
\* "Login" in its title or holds the login frame.
C7_AsStated == lastFetch.markup => ~lastFetch.loginPage

C9_AsStated ==
    (pc \in {"helper_fetch", "helper_login"} /\ ~lastHelper.login) =>
        /\ lastHelper.trust <=> h.loginTrue
        /\ lastHelper.trust => ~lastHelper.checked

\* C9, amended: the trust flag is true exactly when the aggregator's own login(),
\* made after the session check failed, returned True (a login() made inside a
\* helper does not set it); a trusted helper calls neither is_logged_in() nor
\* login().
C9_TrustIsTopLevelLogin ==
    lastHelper.area # "none" =>
        /\ lastHelper.trust <=> h.topLoginTrue
        /\ lastHelper.trust =>
              (/\ ~lastHelper.checked /\ ~lastHelper.login
               /\ h.loggedInChecks = 0 /\ h.loginCalls = 1)

\* C9: a trusted helper is about to fetch.
C9_Witness == pc = "helper_fetch" /\ lastHelper.trust /\ ~lastHelper.checked

\* C10: for every entry point, once the scraper object exists close() is called
\* exactly once before the request returns, on every path.
C10_CloseExactlyOnce ==
    /\ pc = "done" => h.closeCalls = (IF scraper.created THEN 1 ELSE 0)
    /\ pc # "done" => h.closeCalls = 0

\* C10: a request whose login failed has returned with its browser closed once.
C10_Witness ==
    /\ pc = "done" /\ scraper.created /\ h.closeCalls = 1
    /\ response.error \in {"login_failed", "Login failed", "Invalid credentials"}

\* C11, as stated: the profile directory created for a request is gone when the
\* request ends, also when provisioning the browser failed after the directory was
\* made and when terminating the browser raised (a removal that itself failed is
\* the tolerated cleanup error).
C11_AsStated == (pc = "done" /\ ~h.rmFailed) => ~scraper.profile_dir

\* C12: in every all-data response built after the authentication stage, success is
\* true exactly when some per-area result has success=true, successful_data_types
\* is the number of such results, and success_rate is that number out of 4 as a
\* percentage with one decimal (25.0 per area).
C12_SuccessAndRateFollowAreas ==
    (req.action = "get_all_data" /\ response.returned /\ response.total = 4) =>
        LET k == Cardinality({a \in Areas : results[a].success})
        IN  /\ response.success <=> k > 0
            /\ response.successful = k
            /\ response.rate = <<25 * k, 0>>

\* C12: calendar and marks succeeded, attendance and timetable failed, and the
\* response says success with "50.0%".
C12_Witness ==
    /\ req.action = "get_all_data" /\ response.returned /\ response.total = 4
    /\ results["calendar"].success /\ results["marks"].success
    /\ ~results["attendance"].success /\ ~results["timetable"].success
    /\ response.success /\ response.rate = <<50, 0>>

\* C13: a composite all-data request that passes the authentication stage calls the
\* three fetch helpers in order (calendar, attendance+marks, timetable) whatever the
\* earlier ones answered, and its response holds a result of its own for every area.
C13_EveryAreaAttempted ==
    /\ (req.action = "get_all_data" /\ pc \in {"helper", "helper_login", "helper_fetch"})
          => h.helperCalls = (IF pc = "helper" THEN ai - 1 ELSE ai)
    /\ (req.action = "get_all_data" /\ response.returned /\ response.total = 4)
          => /\ h.helperCalls = 3
             /\ \A a \in Areas : results[a] # NotAttempted

\* C13: the calendar fetch returned nothing, the attendance+marks helper raised, and
\* the timetable was still fetched and succeeded.
C13_Witness ==
    /\ req.action = "get_all_data" /\ response.returned /\ response.total = 4
    /\ results["calendar"].error = "Failed to get calendar data after login"
    /\ results["attendance"].error = "Exception"
    /\ results["timetable"].success

\* C14, as stated: when the cache record is expired and non-empty, force-refresh is
\* not set and the request has answered for the calendar without writing a fresh
\* record, the calendar result is a success (the stale payload when the fresh fetch
\* failed).
C14_AsStated ==
    (/\ results["calendar"] # NotAttempted
     /\ ~req.force
     /\ cache.exists /\ cache.count > 0
     /\ now - cache.timestamp > CACHE_DURATION_HOURS)
    => results["calendar"].success

\* C15: a calendar result marked cached and not stale is served only without
\* force-refresh from a non-empty record at most 6 hours old, and carries that
\* record; the calendar page is navigated to only when the cache has nothing to
\* serve (force-refresh, no record, or a record more than 6 hours old); and when
\* the cache has something to serve, the calendar result is the cached payload.
C15_FreshCacheServedWithoutFetch ==
    /\ [](  (results["calendar"].cached /\ ~results["calendar"].stale)
            => (/\ ~req.force
                /\ cache.exists /\ cache.count > 0
                /\ now - cache.timestamp <= CACHE_DURATION_HOURS
                /\ results["calendar"] = Ok(cache.count, TRUE, FALSE)))
    /\ [][ LET served == /\ ~req'.force /\ cache.exists /\ cache.count > 0
                         /\ now - cache.timestamp <= CACHE_DURATION_HOURS
           IN  /\ (h'.fetchNavs = h.fetchNavs + 1 /\ lastFetch'.area = "calendar")
                     => ~served
               /\ (results["calendar"] = NotAttempted
                    /\ results'["calendar"] # NotAttempted)
                     => (served <=> (/\ results'["calendar"].cached
                                     /\ ~results'["calendar"].stale))
         ]_vars

\* C15: a cached calendar payload, less than 6 hours old, was served in a request
\* that made no content-area navigation.
C15_Witness ==
    /\ results["calendar"].cached /\ ~results["calendar"].stale
    /\ now - cache.timestamp < CACHE_DURATION_HOURS
    /\ h.fetchNavs = 0 /\ requests = 2

\* C16: with force-refresh set, the calendar result is never taken from the cache,
\* valid or stale.
C16_ForceRefreshBypassesCache ==
    req.force => (~results["calendar"].cached /\ ~results["calendar"].stale)

\* C16: a force-refresh request has fetched the calendar page although the cache
\* record, written by an earlier request, was within its validity window.
C16_Witness ==
    /\ req.force /\ lastFetch.area = "calendar" /\ h.fetchNavs > 0
    /\ cache.exists /\ cache.count > 0 /\ cache.timestamp < now
    /\ now - cache.timestamp <= CACHE_DURATION_HOURS

\* C17, as stated: within one request (one browser session), once login() has
\* returned False, login() is not called again.
C17_AsStated == [][h.loginFalse => h'.loginCalls <= h.loginCalls]_vars

\* C18, as stated: when the fetch of a composite request's content area detects
\* login-page markers where it expected content, the error of that area is a
\* session-expired / reauthenticate signal (never the error of a failed login).
C18_AsStated ==
    (req.action \in Composite /\ lastFetch.detectedLogin) =>
        \A a \in AreasOfHelper(IF lastFetch.area = "marks" THEN "am" ELSE lastFetch.area) :
            /\ ~results[a].success
            /\ results[a].error \in {"Session expired - please re-authenticate",
                                     "Session expired during timetable fetch - please re-authenticate",
                                     "Session expired - redirected to login page",
                                     "Failed to get data - likely on login page"}

\* C19, as stated: for every content area, when the fetch returned a page (not
\* null, no login page detected in it) and the extractor finds nothing in it, the
\* result of the area is a success with no data and count 0.
C19_AsStated ==
    (/\ lastFetch.markup /\ ~lastFetch.loginPage /\ ~lastFetch.extracted
     /\ results["marks"].error # "Session expired - redirected to login page")
    => \A a \in AreasOfHelper(IF lastFetch.area = "marks" /\ req.action \in Composite
                              THEN "am" ELSE lastFetch.area) :
          results[a].success /\ results[a].count = 0

\* C20: every entry point answers with a result object that has a boolean success
\* field on every path, also when provisioning the browser fails, the browser
\* crashes or a helper raises: a request that has left its entry point holds such
\* an object, every area result in it has a boolean success and names an error when
\* it failed, and no request is stuck before its answer.
C20_EveryPathReturnsResult ==
    /\ pc \in {"close", "done"} =>
          /\ response.returned
          /\ response.success \in BOOLEAN
          /\ ~response.success => response.error # ""
    /\ \A a \in Areas :
          /\ results[a].success \in BOOLEAN
          /\ ~results[a].success => results[a].error # ""
    /\ pc \notin {"idle", "close", "done"} => (~response.returned /\ ENABLED <<Next>>_vars)

\* C20: the browser could not be provisioned, and the request was answered with a
\* failure object from the except clause of its entry point.
C20_Witness ==
    /\ pc = "done" /\ ~scraper.created
    /\ response.returned /\ ~response.success /\ response.error = "API Error"

\* C21: every request returns after a bounded number of steps.  Each step of a
\* request in flight moves it strictly forward in the order of its positions, so a
\* request takes at most 14 steps; an individual endpoint calls login() at most
\* once and navigates to its content page for a fetch at most twice; a composite
\* request calls login() at most once at the top level and at most once in each
\* helper, and fetches at most once in each helper; the liveness probe navigates at
\* most once.
C21_BoundedSteps ==
    [][LET Rank(p, i) ==
               CASE p = "idle" -> 0
                 [] p \in {"validate", "session"} -> 1
                 [] p \in {"top_login", "fetch1"} -> 2
                 [] p = "ilogin" -> 3
                 [] p = "fetch2" -> 4
                 [] p = "helper" -> 3 * i
                 [] p = "helper_login" -> 3 * i + 1
                 [] p = "helper_fetch" -> 3 * i + 2
                 [] p = "finish" -> 12
                 [] p = "close" -> 13
                 [] OTHER -> 14
           helpers == IF req'.action \in Composite THEN Len(HelperSeq(req'.action)) ELSE 0
       IN  /\ pc \notin {"idle", "done"} =>
                 (Rank(pc', ai') > Rank(pc, ai) /\ Rank(pc', ai') <= 14)
           /\ h'.probeNavs <= 1
           /\ h'.helperCalls <= helpers
           /\ h'.fetchNavs <= (IF req'.action \in Individual THEN 2 ELSE h'.helperCalls)
           /\ h'.loginCalls <= (IF req'.action \in Composite THEN 1 + h'.helperCalls ELSE 1)
           /\ h'.loginCalls <= (IF h'.topLoginTrue THEN 1 ELSE 3)
    ]_vars

\* C21: an individual endpoint has made its one login and its two fetches.
C21_Witness ==
    /\ req.action \in Individual /\ pc = "close"
    /\ h.loginCalls = 1 /\ h.fetchNavs = 2 /\ h.probeNavs = 1

C23_AsStated ==
    (lastProbe.called /\ lastProbe.valid) =>
        sessionFiles[scraper.session_file].email = req.email

\* C24, as stated: for every data row and month block whose month is in the
\* header and whose day cell is a number 1..31, the calendar extractor emits an
\* entry for that row and month whose date is the zero-padded DD/MM/YYYY of that
\* day and of the month and year of the header; a day cell that is not such a
\* number produces no entry.
C24_AsStated ==
    call.fn = "extract_calendar_data_from_html" =>
        \A r \in 1..Len(call.arg.rows) : \A k \in 1..Len(call.arg.rows[r]) :
            LET dt == call.arg.rows[r][k].dt
                numeric == Len(dt) > 0 /\ \A i \in 1..Len(dt) : IsAsciiDigit(dt[i])
                mine == {i \in 1..Len(call.out) :
                           call.out[i].row = r /\ call.out[i].month_name = month_names[k]}
            IN  IF month_names[k] \in call.arg.hdr /\ numeric /\ int(dt) \in 1..31
                THEN \E i \in mine :
                        call.out[i].date =
                            Pad2(int(dt)) \o <<"/">> \o Pad2(MonthNum(month_names[k]))
                                \o <<"/", "2", "0", "2", "5">>
                ELSE (month_names[k] \in call.arg.hdr) => mine = {}

\* C25, as stated: for every pair of hours-conducted and hours-absent texts of
\* which at least one is not a number, calculate_attendance_percentage returns
\* "N/A".
C25_AsStated ==
    (/\ call.fn = "calculate_attendance_percentage"
     /\ \E j \in 1..2 :
           \/ Len(call.arg[j]) = 0
           \/ \E i \in 1..Len(call.arg[j]) : ~IsAsciiDigit(call.arg[j][i]))
    => call.out = <<"N", "/", "A">>

\* C26: when a slot mapping is expanded and the day-order grid is built from
\* it, an entry with range slot "Pa-Pb" or "Pa-Pb-" (a <= b) and title t makes
\* every slot Pn with a <= n <= b look up t in the expanded mapping and in the
\* grid, the entry that names a slot last being the one that counts; and
\* every grid cell with an alternate code "S/X" carries the title that "S"
\* looks up.
C26_RangeRoundTrip ==
    (call.fn = "create_do_timetable_json" /\ ~call.out.raised) =>
        LET m == call.arg[1]
            d == call.out.dict
            grid == call.out.timetable
            P(n) == <<"P">> \o NatText(n)
            RangeText(a, b, dash) ==
                P(a) \o <<"-">> \o P(b) \o (IF dash THEN <<"-">> ELSE <<>>)
            Names(slot, n) ==
                \/ slot = P(n)
                \/ \E a \in 1..50, b \in 1..50, dash \in BOOLEAN :
                      slot = RangeText(a, b, dash) /\ a <= n /\ n <= b
            Lookup(S) == IF S \in DOMAIN d THEN d[S] ELSE ""
        IN  /\ \A i \in 1..Len(m), a \in 1..50, b \in 1..50, dash \in BOOLEAN :
                 (a <= b /\ m[i].slot = RangeText(a, b, dash)) =>
                     \A n \in a..b :
                         (\A j \in (i + 1)..Len(m) : ~Names(m[j].slot, n)) =>
                             /\ P(n) \in DOMAIN d
                             /\ d[P(n)] = m[i].course_title
                             /\ \A r \in 1..5, c \in 1..10 :
                                    grid[r][c].slot_code \in {P(n), P(n) \o <<"/", "X">>}
                                        => grid[r][c].course_title = m[i].course_title
            /\ \A r \in 1..5, c \in 1..10 :
                 LET code == grid[r][c].slot_code
                 IN  IF Len(code) > 2 /\ SubSeq(code, Len(code) - 1, Len(code)) = <<"/", "X">>
                     THEN grid[r][c].course_title = Lookup(SubSeq(code, 1, Len(code) - 2))
                     ELSE grid[r][c].course_title = Lookup(code)

\* The range "P3-P4-" followed by the slot "A", for batch 2: the cells P3/X
\* and P4 of day order 1 carry the title of the range.
C26_Witness ==
    /\ call.fn = "create_do_timetable_json"
    /\ call.arg = << << [slot |-> <<"P", "3", "-", "P", "4", "-">>,
                        course_title |-> "Networks Lab"],
                       [slot |-> <<"A">>, course_title |-> "Compiler Design"] >>, "2" >>
    /\ ~call.out.raised
    /\ call.out.timetable[1][3].slot_code = <<"P", "3", "/", "X">>
    /\ call.out.timetable[1][3].course_title = "Networks Lab"
    /\ call.out.timetable[1][4].course_title = "Networks Lab"
    /\ call.out.timetable[1][6].course_title = "Compiler Design"

\* C27: in the result of api_get_marks_data, a marks row whose assessments
\* cell holds no recognizable assessment contributes no record: the list is
\* exactly the rows that have a course code and at least one assessment, in
\* page order and each with its own assessments, count is their number, and
\* the result is a success.
C27_RowWithoutAssessmentsLeftOut ==
    call.fn = "api_get_marks_data" =>
        LET rows == call.arg.marks
            out == call.out.all_courses
            Recognized(i) == \/ rows[i].cell.nested > 0
                             \/ rows[i].cell.direct > 0
                             \/ rows[i].cell.fallback > 0
            HasCode(i) == \E k \in 1..Len(rows[i].code_text) : CodeAt(rows[i].code_text, k)
            kept == {i \in 1..Len(rows) : HasCode(i) /\ Recognized(i)}
            Nth(k) == CHOOSE i \in kept : Cardinality({j \in kept : j < i}) = k - 1
        IN  /\ call.out.success
            /\ call.out.count = Cardinality(kept)
            /\ Len(out) = Cardinality(kept)
            /\ \A k \in 1..Len(out) :
                 /\ out[k].total_assessments > 0
                 /\ out[k].total_assessments = Len(out[k].assessments)
                 /\ out[k].assessments = Assessments(rows[Nth(k)].cell)

\* A page whose first marks row has no recognizable assessment and whose
\* second has one: the result is a success with the second row alone.
C27_Witness ==
    /\ call.fn = "api_get_marks_data"
    /\ Len(call.arg.marks) = 2
    /\ call.arg.marks[1].code_text = call.arg.marks[2].code_text
    /\ call.arg.marks[1].cell = [nested |-> 0, direct |-> 0, fallback |-> 0]
    /\ call.arg.marks[2].cell = [nested |-> 1, direct |-> 0, fallback |-> 0]
    /\ call.out.success
    /\ call.out.count = 1
    /\ call.out.all_courses[1].assessments[1].assessment_name = "FT-I"

\* C28: the course code taken from a cell text is exactly the leftmost run of
\* 2 digits, 3 uppercase letters, 3 digits and 1 uppercase letter in it, without
\* what surrounds it ("18CSC205JRegular" gives "18CSC205J"), both as the key of
\* a course title and as the course_code of a marks record; a row whose cell
\* text holds no such run gives no title and no record.
C28_CourseCodePattern ==
    call.fn = "api_get_marks_data" =>
        LET Digit(c) == c \in {"0", "1", "2", "3", "4", "5", "6", "7", "8", "9"}
            IsCode(t) == /\ Len(t) = 9
                         /\ Digit(t[1]) /\ Digit(t[2])
                         /\ t[3] \in UpperChars /\ t[4] \in UpperChars /\ t[5] \in UpperChars
                         /\ Digit(t[6]) /\ Digit(t[7]) /\ Digit(t[8])
                         /\ t[9] \in UpperChars
            Starts(t) == {i \in 1..(Len(t) - 8) : IsCode(SubSeq(t, i, i + 8))}
            Code(t) == LET i == CHOOSE k \in Starts(t) : \A m \in Starts(t) : k <= m
                       IN  SubSeq(t, i, i + 8)
            rows == call.arg.marks
            out == call.out.all_courses
            kept == {i \in 1..Len(rows) : Starts(rows[i].code_text) # {} /\
                                           Assessments(rows[i].cell) # <<>>}
            Nth(k) == CHOOSE i \in kept : Cardinality({j \in kept : j < i}) = k - 1
            regular == <<"1", "8", "C", "S", "C", "2", "0", "5", "J",
                         "R", "e", "g", "u", "l", "a", "r">>
        IN  /\ Len(out) = Cardinality(kept)
            /\ \A k \in 1..Len(out) :
                 /\ out[k].course_code = Code(rows[Nth(k)].code_text)
                 /\ rows[Nth(k)].code_text = regular
                        => out[k].course_code = <<"1", "8", "C", "S", "C", "2", "0", "5", "J">>
            /\ DOMAIN call.out.course_titles =
                   { Code(call.arg.attendance[i].code_text) :
                       i \in {j \in 1..Len(call.arg.attendance) :
                                 Starts(call.arg.attendance[j].code_text) # {}} }

\* "18CSC205JRegular" in the attendance table and in a marks row with an
\* assessment, after a marks row whose cell text holds no code.
C28_Witness ==
    /\ call.fn = "api_get_marks_data"
    /\ Len(call.arg.attendance) = 1
    /\ call.arg.attendance[1].code_text = <<"1", "8", "C", "S", "C", "2", "0", "5", "J",
                                             "R", "e", "g", "u", "l", "a", "r">>
    /\ Len(call.arg.marks) = 2
    /\ call.arg.marks[1].code_text = <<"1", "8", "c", "s", "c", "2", "0", "5", "j">>
    /\ call.arg.marks[1].cell.nested = 1
    /\ call.arg.marks[2].code_text = call.arg.attendance[1].code_text
    /\ call.out.count = 1
    /\ call.out.all_courses[1].course_code = <<"1", "8", "C", "S", "C", "2", "0", "5", "J">>
    /\ call.out.all_courses[1].course_title = "Compiler Design"

C30_FetchOnlyWhenAuthenticated ==
    [][ (h'.fetchNavs > h.fetchNavs) =>
          /\ lastProbe.valid \/ auth.session_valid \/ h.loginTrue \/ lastHelper.loggedIn
          /\ lastLogin.called => lastLogin.result
          /\ req.action \in Individual =>
                /\ ~h.loginFalse
                /\ IF pc = "fetch1" THEN lastProbe.called /\ lastProbe.valid /\ h.loginCalls = 0
                   ELSE lastLogin.called /\ lastLogin.result
          /\ req.action \in Composite =>
                /\ auth.session_valid \/ h.topLoginTrue
                /\ auth.session_valid => ~auth.login_performed
                /\ IF lastHelper.trust
                   THEN h.topLoginTrue /\ ~lastHelper.checked /\ ~lastHelper.login
                   ELSE /\ lastHelper.checked
                        /\ IF lastHelper.loggedIn
                           THEN ~lastHelper.login /\ ~lastLogin.called
                           ELSE lastHelper.login /\ lastLogin.called /\ lastLogin.result
      ]_vars

\* A helper has fetched after is_logged_in() returned False and its own login()
\* returned True, an earlier helper's login() having returned False.
C30_Witness ==
    /\ req.action \in Composite
    /\ auth.session_valid
    /\ lastFetch.area # "none"
    /\ lastHelper.checked /\ ~lastHelper.loggedIn /\ lastHelper.login
    /\ h.loginFalse /\ h.loginTrue
    /\ h.fetchNavs = 1

\* C31, as stated: during a composite request that supplied no password,
\* login() is never called, neither by the aggregator nor by a fetch helper.
C31_AsStated ==
    (req.action \in Composite /\ ~req.password) => h.loginCalls = 0

\* C32: a login() that returns False leaves every session marker as it was; a
\* login() that returns True with sessions in use overwrites the marker of the
\* scraper's session file with the email, the current time and the status
\* "logged_in", and leaves the other files alone; no other step writes a marker.
C32_MarkerWrittenOnlyOnSuccess ==
    [][ IF h'.loginCalls = h.loginCalls + 1
        THEN IF lastLogin'.result /\ scraper.use_session
             THEN sessionFiles' =
                    [sessionFiles EXCEPT ![scraper.session_file] =
                        [exists |-> TRUE, email |-> req.email, timestamp |-> now,
                         status |-> "logged_in"]]
             ELSE sessionFiles' = sessionFiles
        ELSE sessionFiles' = sessionFiles
      ]_vars

\* A login() has returned False while the scraper's session file holds the
\* marker of an earlier login, written at an earlier time.
C32_Witness ==
    /\ lastLogin.called /\ ~lastLogin.result
    /\ scraper.use_session
    /\ sessionFiles[scraper.session_file].exists
    /\ sessionFiles[scraper.session_file].status = "logged_in"
    /\ sessionFiles[scraper.session_file].timestamp < now

\* C33: the calendar cache is one record for all identities.  A request for
\* the calendar that does not force a refresh and finds a record younger than
\* the cache duration with entries is answered with that record as a cache
\* hit, whoever wrote it; the individual endpoint answers at once, without a
\* scraper, a session check or a login, and an aggregator's calendar helper
\* answers without a navigation.
C33_CacheSharedByAllIdentities ==
    [][ LET fresh == /\ cache.exists /\ cache.count > 0
                     /\ now - cache.timestamp <= CACHE_DURATION_HOURS
        IN  /\ (/\ pc = "idle" /\ pc' # "idle"
                /\ req'.action = "get_calendar_data" /\ req'.password /\ ~req'.force
                /\ fresh)
               => /\ response'.returned /\ response'.success
                  /\ results'["calendar"] = Ok(cache.count, TRUE, FALSE)
                  /\ ~scraper'.created
                  /\ pc' = "done"
                  /\ h' = NoHistory
            /\ (/\ pc = "helper" /\ HelperSeq(req.action)[ai] = "calendar"
                /\ ~req.force /\ fresh)
               => /\ results'["calendar"] = Ok(cache.count, TRUE, FALSE)
                  /\ h'.fetchNavs = h.fetchNavs
                  /\ h'.loginCalls = h.loginCalls
      ]_vars

\* The individual endpoint has answered a request of one identity with the
\* record another identity's request wrote, without a scraper.
C33_Witness ==
    /\ req.action = "get_calendar_data"
    /\ req.email # "none"
    /\ cache.exists
    /\ cache.owner \notin {"none", req.email}
    /\ response.returned /\ response.success
    /\ results["calendar"].cached
    /\ results["calendar"].count = cache.count
    /\ ~scraper.created
    /\ h.loginCalls = 0 /\ h.probeNavs = 0
\* C34: the cache record is only ever written with a non-empty list of
\* entries: a record that exists counts at least one entry, every step that
\* changes the record writes one stamped now with at least one entry, a
\* calendar extraction that yields no entries leaves the record as it was,
\* and every result with cached = true counts at least one entry.
C34_CacheNeverWrittenEmpty ==
    /\ [](cache.exists => cache.count >= 1)
    /\ [](\A a \in Areas : results[a].cached => results[a].count >= 1)
    /\ [][/\ cache' # cache =>
                /\ cache'.exists /\ cache'.count >= 1 /\ cache'.timestamp = now
                /\ results'["calendar"] = Ok(cache'.count, FALSE, FALSE)
          /\ (/\ results'["calendar"] # results["calendar"]
              /\ results'["calendar"] = Ok(0, FALSE, FALSE)) => cache' = cache]_vars

\* A calendar extraction that found nothing, while the record an earlier
\* extraction wrote is still in place.
C34_Witness ==
    /\ results["calendar"] = Ok(0, FALSE, FALSE)
    /\ cache.exists /\ cache.count >= 1
    /\ cache.timestamp < now

\* C35, as stated: every entry the calendar extractor emits has a day order
\* label among "DO 1", "DO 2", "DO 3", "DO 4", "DO 5" and "-", and a day of the
\* month in 1..31, whatever the texts of the day and day order cells.
C35_AsStated ==
    call.fn = "extract_calendar_data_from_html" =>
        \A i \in 1..Len(call.out) :
            /\ call.out[i].day_order \in
                   {<<"D", "O", " ", DigitChars[n + 1]>> : n \in 1..5} \cup {<<"-">>}
            /\ ~IntRaises(call.out[i].day_number)
            /\ int(call.out[i].day_number) \in 1..31

\* C36: extract_semester_from_html returns an integer in 1..8 for every page.
\* The cell beside a label cell of the second table, the text of the second
\* table and then the text of every table are searched in that order, and the
\* first value in 1..8 found is returned; when none is found, or the page
\* cannot be parsed, the result is 1.
C36_SemesterSearchOrder ==
    call.fn = "extract_semester_from_html" =>
        LET t == call.arg.tables
            second == IF Len(t) >= 2 THEN t[2] ELSE <<>>
            Beside(j) == DigitValue(FirstDigits(second[j + 1])[1])
            labelled == {j \in 1..(Len(second) - 1) :
                            /\ HasSemester(lower(second[j])) /\ contains(second[j], ":")
                            /\ HasDigits(second[j + 1])
                            /\ Beside(j) \in 1..8}
            InText(i) == SemesterInText(lower(get_text(t[i])))
            found == {i \in 1..Len(t) : InText(i) \in 1..8}
        IN  /\ call.out \in 1..8
            /\ call.out =
                  IF ~call.arg.parses THEN 1
                  ELSE IF labelled # {}
                  THEN Beside(CHOOSE j \in labelled : \A k \in labelled : j <= k)
                  ELSE IF 2 \in found THEN InText(2)
                  ELSE IF found # {}
                  THEN InText(CHOOSE i \in found : \A k \in found : i <= k)
                  ELSE 1

\* A page whose second table holds the cell "Semester: 5" beside the cell "3",
\* and whose first table reads "Semester" beside "3": the label search gives
\* 3, the text of the second table reads 5.
C36_Witness ==
    /\ call.fn = "extract_semester_from_html"
    /\ call.arg.parses
    /\ Len(call.arg.tables) = 2
    /\ call.arg.tables[2] =
           << <<"S", "e", "m", "e", "s", "t", "e", "r", ":", " ", "5">>, <<"3">> >>
    /\ SemesterInText(lower(get_text(call.arg.tables[2]))) = 5
    /\ call.out = 3

\* C37: the timetable of create_do_timetable_json has exactly the five day
\* orders DO 1..DO 5 with exactly ten time slots each; the slot codes are those
\* of the Batch 1 template when the batch number is 1 and those of the Batch 2
\* template when it is 2, undetected or anything else; and a cell whose slot
\* code (without its /X) is not in the mapping has the empty course title.
C37_FiveByTenFromBatchTemplate ==
    (call.fn = "create_do_timetable_json" /\ ~call.out.raised) =>
        LET grid == call.out.timetable
            d == call.out.dict
            template == IF call.arg[2] = "1" THEN batch_1_periods ELSE batch_2_periods
            Base(code) == IF HasAlternate(code) THEN RemoveAlternate(code) ELSE code
        IN  /\ DOMAIN grid = 1..5
            /\ \A do \in 1..5 :
                  /\ DOMAIN grid[do] = 1..10
                  /\ \A slot \in 1..10 :
                        /\ grid[do][slot].slot_code = template[do][slot]
                        /\ Base(grid[do][slot].slot_code) \notin DOMAIN d
                              => grid[do][slot].course_title = ""
            /\ grid[1][1].slot_code = (IF call.arg[2] = "1" THEN <<"A">> ELSE <<"P", "1">>)

\* A batch number that is neither 1 nor 2: the Batch 2 grid, with the mapped
\* slot A filled and the unmapped slot P1 empty.
C37_Witness ==
    /\ call.fn = "create_do_timetable_json"
    /\ ~call.out.raised
    /\ call.arg[2] = "3"
    /\ call.out.timetable[1][1].slot_code = <<"P", "1">>
    /\ call.out.timetable[1][1].course_title = ""
    /\ call.out.timetable[1][6].slot_code = <<"A">>
    /\ call.out.timetable[1][6].course_title = "Compiler Design"

\* C38: the assessment methods of a marks row are tried in the order nested
\* table, the three assessment patterns, the two fallback patterns, and a
\* method or pattern adds assessments only when every one before it produced
\* none: the list of a row is empty or is exactly what one of them produces,
\* all those before it producing nothing.
C38_AssessmentsFromOneMethod ==
    call.fn = "assessments" =>
        LET f == call.arg
            Named(matches) ==
                LET kept == {i \in 1..Len(matches) : matches[i].marks}
                    Nth(k) == CHOOSE i \in kept : Cardinality({j \in kept : j < i}) = k - 1
                IN  [k \in 1..Cardinality(kept) |-> matches[Nth(k)].name]
            Produces(s) ==
                CASE s = 1 -> f.nested
                  [] s \in 2..4 -> f.patterns[s - 1]
                  [] OTHER -> Named(f.fallbacks[s - 4])
        IN  \/ /\ call.out = <<>>
               /\ \A s \in 1..4 : Produces(s) = <<>>
            \/ \E s \in 1..6 :
                  /\ Produces(s) # <<>>
                  /\ call.out = Produces(s)
                  /\ \A t \in 1..(s - 1) : Produces(t) = <<>>

\* A cell whose nested table gives FT-I and FT-II while the third assessment
\* pattern and the second fallback pattern match the same text: the list is
\* the nested table's.
C38_Witness ==
    /\ call.fn = "assessments"
    /\ call.arg.nested = <<"FT-I", "FT-II">>
    /\ call.arg.patterns[3] = <<"FT-I", "CT-I">>
    /\ call.arg.fallbacks[2] = <<[name |-> "Quiz", marks |-> TRUE]>>
    /\ call.out = <<"FT-I", "FT-II">>

\* C39, as stated, for the calendar extractor: an exception raised while one
\* data row is processed skips that row alone, and the remaining rows are
\* still processed and returned: every data row in whose own processing no
\* exception is raised has an entry for each of its blocks with a day 1..31.
C39_AsStated ==
    call.fn = "extract_calendar_data_from_html" =>
        LET rows == call.arg.rows
            Raises(b) == \/ isdigit(b.dt) /\ IntRaises(b.dt)
                         \/ ValidDay(b.dt) /\ DayOrderRaises(b.do)
            RowRaises(r) ==
                \/ \E k \in 1..Len(month_names) : month_names[k] \notin call.arg.hdr
                \/ \E k \in 1..Len(rows[r]) : Raises(rows[r][k])
        IN  \A r \in 1..Len(rows) :
                ~RowRaises(r) =>
                    \A k \in 1..Len(rows[r]) :
                        ValidDay(rows[r][k].dt) =>
                            \E i \in 1..Len(call.out) :
                                /\ call.out[i].row = r
                                /\ call.out[i].month_name = month_names[k]

====
